---------------------------- MODULE Spec2Model ----------------------------
(***************************************************************************)
(* Model of the analyzers of model-health-index:                           *)
(*   src/analyzers/semantic_analyzer.py  (structural engine)               *)
(*   src/analyzers/mcode_analyzer.py     (M-code engine)                   *)
(*   src/analyzers/bpa_rules_engine.py   (BPA rule catalog and evaluator)  *)
(*   src/analyzers/unified_analyzer.py   (report combiner)                 *)
(*                                                                         *)
(* Arithmetic.  The code scores in binary floating point.  The model keeps *)
(* every quantity exact, as an integer number of thousandths of a point    *)
(* (severity multipliers in tenths, category weights in hundredths).  The  *)
(* one place where the float result can differ from the exact one is the   *)
(* truncation int(score): every exact score is a multiple of 0.001, so the *)
(* accumulated rounding error (about 1e-13) matters only when the exact    *)
(* score is a whole number and the float lands just below it.  Which way    *)
(* the float lands is a fixed function of the input that the model does    *)
(* not compute; the variable fp stands for it (see FloatInt).              *)
(***************************************************************************)
EXTENDS Integers, Sequences, FiniteSets, TLC

VARIABLES
    fp,        \* TRUE: a whole-valued float total landed just below the whole number
    engine,    \* the analyzer object whose methods are exercised
    issues,    \* self.issues of that analyzer
    report,    \* the result of the last analysis, NoReport before the first
    input,     \* the definition handed to the entry point, NoInput when none is
    violations \* self.violations of the BPA rules engine

vars == <<fp, engine, issues, report, input, violations>>

NoReport == [kind |-> "none"]
NoInput == [kind |-> "none"]

(***************************************************************************)
(* Enumerations and tables of the two engines                              *)
(***************************************************************************)
Engines == {"structural", "mcode"}

\* class IssueCategory, in declaration order
IssueCategory ==
    <<"Performance", "Model Design", "Relationships", "Measures",
      "Naming Convention", "Documentation", "Best Practices">>

\* class MCodeIssueCategory, in declaration order
MCodeIssueCategory ==
    <<"Performance", "Query Folding", "Data Quality", "Error Handling",
      "Best Practices", "Naming Convention", "Documentation", "Security">>

\* class IssueSeverity / MCodeSeverity
IssueSeverity == {"Critical", "High", "Medium", "Low", "Info"}

Categories(e) == IF e = "structural" THEN IssueCategory ELSE MCodeIssueCategory

CategorySet(e) == {Categories(e)[k] : k \in 1..Len(Categories(e))}

\* self.max_score
max_score == 100

\* ModelIssue.impact_score / MCodeIssue.impact_score: "0-10 impact on overall score"
MaxImpact == 10

\* self.scoring_weights of EnhancedSemanticModelAnalyzer, in hundredths
structural_weights ==
    [c \in {IssueCategory[k] : k \in 1..Len(IssueCategory)} |->
        CASE c = "Performance"       -> 25
          [] c = "Model Design"      -> 20
          [] c = "Relationships"     -> 20
          [] c = "Measures"          -> 15
          [] c = "Best Practices"    -> 10
          [] c = "Naming Convention" -> 5
          [] c = "Documentation"     -> 5]

\* self.scoring_weights of EnhancedMCodeAnalyzer, in hundredths
mcode_weights ==
    [c \in {MCodeIssueCategory[k] : k \in 1..Len(MCodeIssueCategory)} |->
        CASE c = "Performance"       -> 25
          [] c = "Query Folding"     -> 20
          [] c = "Data Quality"      -> 15
          [] c = "Error Handling"    -> 15
          [] c = "Best Practices"    -> 10
          [] c = "Security"          -> 10
          [] c = "Naming Convention" -> 3
          [] c = "Documentation"     -> 2]

scoring_weights(e) == IF e = "structural" THEN structural_weights ELSE mcode_weights

\* severity_multipliers, in tenths
severity_multipliers ==
    [s \in IssueSeverity |->
        CASE s = "Critical" -> 15
          [] s = "High"     -> 10
          [] s = "Medium"   -> 7
          [] s = "Low"      -> 3
          [] s = "Info"     -> 0]

Min(a, b) == IF a <= b THEN a ELSE b
Max(a, b) == IF a >= b THEN a ELSE b

\* An issue as the scoring reads it: ModelIssue / MCodeIssue
Issue(c, s, i, t) == [category |-> c, severity |-> s, impact_score |-> i, title |-> t]

(***************************************************************************)
(* _calculate_score                                                        *)
(***************************************************************************)
\* penalty = issue.impact_score * severity_multipliers[issue.severity], in tenths
IssuePenalty(iss) == iss.impact_score * severity_multipliers[iss.severity]

\* category_penalties[c] after the loop over self.issues[k..], in tenths
RECURSIVE PenaltyFrom(_, _, _)
PenaltyFrom(iss, c, k) ==
    IF k > Len(iss) THEN 0
    ELSE (IF iss[k].category = c THEN IssuePenalty(iss[k]) ELSE 0)
         + PenaltyFrom(iss, c, k + 1)

category_penalty(iss, c) == PenaltyFrom(iss, c, 1)

\* weighted_penalty = penalty * weight, in thousandths
weighted_penalty(e, iss, c) == category_penalty(iss, c) * scoring_weights(e)[c]

\* max_category_penalty = self.max_score * 0.3, in thousandths
max_category_penalty == max_score * 300

\* mutant: the cap is left out
capped_penalty_nocap(e, iss, c) == weighted_penalty(e, iss, c)

\* weighted_penalty = min(weighted_penalty, max_category_penalty)
capped_penalty(e, iss, c) == Min(weighted_penalty(e, iss, c), max_category_penalty)

RECURSIVE SumOver(_, _, _, _)
SumOver(e, iss, cats, k) ==
    IF k > Len(cats) THEN 0
    ELSE capped_penalty(e, iss, cats[k]) + SumOver(e, iss, cats, k + 1)

\* the sum of what the loop "score -= weighted_penalty" subtracts, in thousandths
total_penalty(e, iss) == SumOver(e, iss, Categories(e), 1)

\* mutant: round(x) instead of int(x), ties to even
FloatRound(m, penalised, lossy) ==
    IF m >= 0
    THEN LET q == m \div 1000
             r == m % 1000
         IN  IF r > 500 \/ (r = 500 /\ q % 2 = 1) THEN q + 1 ELSE q
    ELSE LET q == (-m) \div 1000
             r == (-m) % 1000
         IN  IF r > 500 \/ (r = 500 /\ q % 2 = 1) THEN -(q + 1) ELSE -q

\* int(x) of a float x whose exact value is m thousandths.  int truncates
\* toward zero.  A whole exact value reached through a non-zero penalty may
\* be represented just below the whole number (lossy), and then truncates
\* to one less; with no penalty at all every operand is exact.
FloatInt(m, penalised, lossy) ==
    IF m >= 0
    THEN IF m % 1000 = 0 /\ penalised /\ lossy /\ m > 0
         THEN (m \div 1000) - 1
         ELSE m \div 1000
    ELSE -((-m) \div 1000)

\* mutant: the final max(0, ...) is left out
calculate_score_noclamp(e, iss, lossy) ==
    FloatInt(max_score * 1000 - total_penalty(e, iss),
             total_penalty(e, iss) > 0, lossy)

\* return max(0, int(score))
calculate_score(e, iss, lossy) ==
    Max(0, FloatInt(max_score * 1000 - total_penalty(e, iss),
                    total_penalty(e, iss) > 0, lossy))

(***************************************************************************)
(* _generate_report                                                        *)
(***************************************************************************)
\* mutant: exclusive lower bounds
Grade_exclusive(score) ==
    IF score > 90 THEN "A"
    ELSE IF score > 80 THEN "B"
    ELSE IF score > 70 THEN "C"
    ELSE IF score > 60 THEN "D"
    ELSE "F"

\* the grade ladder of _generate_report
Grade(score) ==
    IF score >= 90 THEN "A"
    ELSE IF score >= 80 THEN "B"
    ELSE IF score >= 70 THEN "C"
    ELSE IF score >= 60 THEN "D"
    ELSE "F"

\* max_category_score = self.max_score * self.scoring_weights[category], in tenths
max_category_score(e, c) == (max_score * scoring_weights(e)[c]) \div 10

\* mutant: the category score is taken from the capped weighted penalty that
\* the overall score subtracts
category_score_capped(e, iss, c) ==
    Max(0, max_category_score(e, c) - capped_penalty(e, iss, c) \div 100)

\* category_score = max(0, max_category_score - penalty), in tenths
category_score(e, iss, c) == Max(0, max_category_score(e, c) - category_penalty(iss, c))

\* the categories whose float category_score may lie just below a whole
\* number: the penalty has a summand impact * 0.7 or impact * 0.3, which
\* binary floating point does not represent exactly
lossy_scores(e, iss) ==
    {c \in CategorySet(e) :
        /\ category_score(e, iss, c) > 0
        /\ category_score(e, iss, c) % 10 = 0
        /\ \E k \in 1..Len(iss) : /\ iss[k].category = c
                                  /\ iss[k].severity \in {"Medium", "Low"}
                                  /\ iss[k].impact_score > 0}

\* the categories whose float (category_score / max_category_score) * 100
\* may lie just below a whole number
lossy_percentages(e, iss) ==
    {c \in CategorySet(e) :
        /\ category_score(e, iss, c) > 0
        /\ category_score(e, iss, c) < max_category_score(e, c)
        /\ (category_score(e, iss, c) * 100) % max_category_score(e, c) = 0}

\* mutant: only the issues that cost points are counted
issues_count_penalised(iss, c) ==
    Len(SelectSeq(iss, LAMBDA issue : issue.category = c /\ issue.severity # "Info"))

\* sum(1 for issue in self.issues if issue.category == category)
issues_count(iss, c) == Len(SelectSeq(iss, LAMBDA issue : issue.category = c))

\* _calculate_category_scores; low_score and low_percentage are the
\* categories whose float value came out just below the whole number
calculate_category_scores(e, iss, low_score, low_percentage) ==
    [c \in CategorySet(e) |->
        [score        |-> (category_score(e, iss, c) \div 10)
                              - (IF c \in low_score THEN 1 ELSE 0),
         max_score    |-> max_category_score(e, c) \div 10,
         percentage   |-> IF max_category_score(e, c) > 0
                          THEN ((category_score(e, iss, c) * 100)
                                    \div max_category_score(e, c))
                               - (IF c \in low_percentage THEN 1 ELSE 0)
                          ELSE 0,
         issues_count |-> issues_count(iss, c)]]

\* _generate_report(score, sections) of the structural engine and
\* _generate_report(score, query_analyses) of the M-code engine, without the
\* recommendations and the step counts
generate_report(e, score, iss, category_scores, sections) ==
    [kind               |-> "report",
     score              |-> score,
     max_score          |-> max_score,
     grade              |-> Grade(score),
     total_issues       |-> Len(iss),
     issues_by_severity |->
         [severity \in IssueSeverity |->
             Len(SelectSeq(iss, LAMBDA issue : issue.severity = severity))],
     issues             |-> iss,
     statistics         |->
         IF e = "structural"
         THEN [tables             |-> Len(sections.tables),
               relationships      |-> Len(sections.relationships),
               measures           |-> Len(sections.measures),
               calculated_columns |-> Len(sections.calculated_columns),
               hierarchies        |-> Len(sections.hierarchies),
               roles              |-> Len(sections.roles)]
         ELSE [total_queries               |-> Len(sections),
               queries_with_folding_issues |-> issues_count(iss, "Query Folding")],
     category_scores    |-> category_scores]

(***************************************************************************)
(* Scoring of arbitrary issue lists (SpecScore)                            *)
(*                                                                         *)
(* The issue list is built the way the checks build it, one append at a    *)
(* time.  Two appends are distinguished only to keep the input family      *)
(* small: a unit issue costs exactly one point (High severity, impact      *)
(* 100/weight in a category whose weight divides 100 into an impact of at  *)
(* most MaxImpact), so that runs of them walk the score through every      *)
(* whole value from 100 down to 0 and past each category's cap; a free     *)
(* issue is any category and severity with an impact of FreeImpacts.       *)
(***************************************************************************)
\* the impacts of free issues: none, the least, the two of the baseline
\* violations that the scoring examples use, and the greatest
FreeImpacts == {0, 1, 4, 6, MaxImpact}

\* number of unit issues appended per category before moving to the next
UnitRun == 31

\* longest run of unit issues
MaxUnits == 124

\* longest list of free issues
MaxExtra == 1

RECURSIVE UnitCatsFrom(_, _)
UnitCatsFrom(e, k) ==
    IF k > Len(Categories(e)) THEN <<>>
    ELSE LET c == Categories(e)[k]
             w == scoring_weights(e)[c]
         IN  (IF 100 % w = 0 /\ 100 \div w <= MaxImpact THEN <<c>> ELSE <<>>)
             \o UnitCatsFrom(e, k + 1)

\* the categories in which an issue can cost exactly one point
UnitCategories == [e \in Engines |-> UnitCatsFrom(e, 1)]

\* the j-th unit issue
UnitIssue(e, j) ==
    LET cats == UnitCategories[e]
        c    == cats[(((j - 1) \div UnitRun) % Len(cats)) + 1]
    IN  Issue(c, "High", 100 \div scoring_weights(e)[c], "unit")

UnitList == [e \in Engines |-> [j \in 1..MaxUnits |-> UnitIssue(e, j)]]

\* the list holds unit issues only, in their order
IsUnitList(e, iss) ==
    /\ Len(iss) <= MaxUnits
    /\ iss = SubSeq(UnitList[e], 1, Len(iss))

\* the list holds free issues only
IsFreeList(iss) == \A k \in 1..Len(iss) : iss[k].title = "free"

InitScore ==
    /\ fp = FALSE
    /\ engine \in Engines
    /\ issues = <<>>
    /\ report = NoReport
    /\ input = NoInput
    /\ violations = <<>>

\* self.issues.append(...) of an issue costing one point
AppendUnit ==
    /\ report = NoReport
    /\ IsUnitList(engine, issues)
    /\ Len(issues) < MaxUnits
    /\ issues' = Append(issues, UnitList[engine][Len(issues) + 1])
    /\ UNCHANGED <<fp, engine, report, input, violations>>

\* self.issues.append(...) of any issue
AppendIssue ==
    /\ report = NoReport
    /\ IsFreeList(issues)
    /\ Len(issues) < MaxExtra
    /\ \E c \in CategorySet(engine), s \in IssueSeverity, i \in FreeImpacts :
          issues' = Append(issues, Issue(c, s, i, "free"))
    /\ UNCHANGED <<fp, engine, report, input, violations>>

\* score = self._calculate_score(); report = self._generate_report(score, ...)
ScoreAndReport ==
    /\ report = NoReport
    /\ fp' \in BOOLEAN
    /\ \E low_score \in SUBSET lossy_scores(engine, issues),
          low_percentage \in SUBSET lossy_percentages(engine, issues) :
           report' = generate_report(engine, calculate_score(engine, issues, fp'), issues,
                                     calculate_category_scores(engine, issues,
                                                               low_score, low_percentage),
                                     \* the lists are scored for a model without
                                     \* objects, or for no query
                                     IF engine = "structural"
                                     THEN [tables |-> <<>>, relationships |-> <<>>,
                                           measures |-> <<>>, calculated_columns |-> <<>>,
                                           hierarchies |-> <<>>, roles |-> <<>>]
                                     ELSE <<>>)
    /\ UNCHANGED <<engine, issues, input, violations>>

SpecScore == InitScore /\ [][AppendUnit \/ AppendIssue \/ ScoreAndReport]_vars

(***************************************************************************)
(* Claims about scoring, checked under SpecScore                           *)
(***************************************************************************)
Reported == report.kind = "report"

\* C1: for every list of violations, the overall score computed by either
\* engine is an integer between 0 and 100.
C1_ScoreBounds ==
    Reported => /\ report.score \in Int
                /\ 0 <= report.score
                /\ report.score <= 100

\* C1 witness: a report whose penalties exceed 100 points, clamped to 0.
C1_Witness ==
    /\ Reported
    /\ total_penalty(engine, issues) > max_score * 1000
    /\ report.score = 0

\* the issues of iss that are not of category c
Without(iss, c) == SelectSeq(iss, LAMBDA x : x.category # c)

\* the raw penalty of a category as the claims define it, in tenths of a point:
\* the sum of impact x multiplier (Critical 1.5, High 1.0, Medium 0.7, Low 0.3,
\* Info 0.0)
ClaimMultiplier(s) ==
    CASE s = "Critical" -> 15
      [] s = "High"     -> 10
      [] s = "Medium"   -> 7
      [] s = "Low"      -> 3
      [] s = "Info"     -> 0

RECURSIVE ClaimRawUpTo(_, _, _)
ClaimRawUpTo(iss, c, n) ==
    IF n = 0 THEN 0
    ELSE ClaimRawUpTo(iss, c, n - 1)
         + (IF iss[n].category = c
            THEN iss[n].impact_score * ClaimMultiplier(iss[n].severity)
            ELSE 0)

ClaimRaw(iss, c) == ClaimRawUpTo(iss, c, Len(iss))

\* the capped penalty of a category as the claims define it, in thousandths
ClaimCapped(e, iss, c) == Min(ClaimRaw(iss, c) * scoring_weights(e)[c], 30000)

RECURSIVE ClaimSum(_, _, _)
ClaimSum(e, iss, cs) ==
    IF cs = {} THEN 0
    ELSE LET c == CHOOSE x \in cs : TRUE
         IN  ClaimCapped(e, iss, c) + ClaimSum(e, iss, cs \ {c})

\* 100 minus the sum over categories of the capped penalty, in thousandths
ClaimExact(e, iss) == 100000 - ClaimSum(e, iss, CategorySet(e))

\* C2: for every category the amount subtracted from the total is
\* min(raw_penalty x category_weight, 30); no single category removes more
\* than 30 points: the total drops by exactly that amount when the category's
\* issues are added, and (float representation aside) the reported score is
\* at most 30 below the score of the same list without that category's issues.
C2_CategoryCap ==
    Reported =>
        LET all == total_penalty(engine, issues)
        IN  \A c \in CategorySet(engine) :
                LET rest    == Without(issues, c)
                    removed == all - total_penalty(engine, rest)
                IN  /\ removed = ClaimCapped(engine, issues, c)
                    /\ removed <= 30000
                    /\ ~fp => report.score + 30 >= calculate_score(engine, rest, fp)

\* C2 witness: a report over a list in which some category's weighted penalty
\* exceeds 30 points, so that the cap decides what is subtracted.
C2_Witness ==
    /\ Reported
    /\ \E c \in CategorySet(engine) :
          ClaimRaw(issues, c) * scoring_weights(engine)[c] > 30000

\* round() of m thousandths to the nearest integer, ties to even
RoundNearest(m) ==
    LET q == m \div 1000
        r == m % 1000
    IN  IF r > 500 \/ (r = 500 /\ q % 2 = 1) THEN q + 1 ELSE q

\* C3 as stated: the overall score equals max(0, round(100 - sum of capped
\* penalties)), rounded to the nearest integer.
C3_Original_Rounded ==
    Reported => report.score = Max(0, RoundNearest(ClaimExact(engine, issues)))

\* C3 amended: the overall score equals max(0, int(100 - sum of capped
\* penalties)), truncated toward zero, not rounded: it is the floor of the
\* exact value when that is not a whole number, the exact value or one less
\* (float representation) when it is a whole number reached through a
\* non-zero penalty, 100 when nothing is subtracted, and 0 when the exact
\* value is negative.  A total penalty of 0.28 yields 99, one of 1.2 yields 98.
C3_ScoreTruncated ==
    Reported =>
        LET x == ClaimExact(engine, issues)
        IN  /\ x < 0 => report.score = 0
            /\ x >= 0 /\ x % 1000 # 0 => report.score = x \div 1000
            /\ x >= 0 /\ x % 1000 = 0 =>
                  report.score \in {x \div 1000, Max(0, (x \div 1000) - 1)}
            /\ x = 100000 => report.score = 100
            /\ x = 100000 - 280 => report.score = 99
            /\ x = 100000 - 1200 => report.score = 98

\* C3 witness: a report over one Medium issue of impact 4 in a category of
\* weight 0.10 (total penalty 0.28), scored 99.
C3_Witness ==
    /\ Reported
    /\ issues = <<Issue("Best Practices", "Medium", 4, "free")>>
    /\ ClaimExact(engine, issues) = 100000 - 280
    /\ report.score = 99

\* the grade the claims give a score
ClaimGrade(s) ==
    CASE s >= 90            -> "A"
      [] s >= 80 /\ s <= 89 -> "B"
      [] s >= 70 /\ s <= 79 -> "C"
      [] s >= 60 /\ s <= 69 -> "D"
      [] OTHER              -> "F"

\* C4: grade banding uses inclusive lower bounds: A from 90, B 80..89,
\* C 70..79, D 60..69, F otherwise; 90, 89, 80, 79, 70, 69, 60, 59 map to
\* A, B, B, C, C, D, D, F.
C4_GradeBands ==
    Reported =>
        /\ report.grade = ClaimGrade(report.score)
        /\ report.score = 90 => report.grade = "A"
        /\ report.score = 89 => report.grade = "B"
        /\ report.score = 80 => report.grade = "B"
        /\ report.score = 79 => report.grade = "C"
        /\ report.score = 70 => report.grade = "C"
        /\ report.score = 69 => report.grade = "D"
        /\ report.score = 60 => report.grade = "D"
        /\ report.score = 59 => report.grade = "F"

\* C4 witness: a report of the M-code engine scored exactly 80 and graded B.
C4_Witness ==
    /\ Reported
    /\ engine = "mcode"
    /\ report.score = 80
    /\ report.grade = "B"

(***************************************************************************)
(* Text                                                                    *)
(*                                                                         *)
(* A Python str is modelled as the sequence of its characters, so that     *)
(* lower(), upper(), the in operator, count(), strip() and the regular     *)
(* expressions of the checks are computed, not assumed.                    *)
(***************************************************************************)
UpperLetters ==
    <<"A", "B", "C", "D", "E", "F", "G", "H", "I", "J", "K", "L", "M",
      "N", "O", "P", "Q", "R", "S", "T", "U", "V", "W", "X", "Y", "Z">>

LowerLetters ==
    <<"a", "b", "c", "d", "e", "f", "g", "h", "i", "j", "k", "l", "m",
      "n", "o", "p", "q", "r", "s", "t", "u", "v", "w", "x", "y", "z">>

DigitChars == {"0", "1", "2", "3", "4", "5", "6", "7", "8", "9"}

\* the characters \s matches
Whitespace == {" ", "\n", "\t"}

\* the lower-case letter of each upper-case letter, and the converse
ToLower == [c \in {UpperLetters[k] : k \in 1..Len(UpperLetters)} |->
               LowerLetters[CHOOSE k \in 1..Len(UpperLetters) : UpperLetters[k] = c]]

ToUpper == [c \in {LowerLetters[k] : k \in 1..Len(LowerLetters)} |->
               UpperLetters[CHOOSE k \in 1..Len(LowerLetters) : LowerLetters[k] = c]]

\* [a-zA-Z0-9]
IsAlnum(c) == c \in DOMAIN ToLower \/ c \in DOMAIN ToUpper \/ c \in DigitChars

\* str.lower()
lower(s) == [k \in 1..Len(s) |-> IF s[k] \in DOMAIN ToLower THEN ToLower[s[k]] ELSE s[k]]

\* str.upper()
upper(s) == [k \in 1..Len(s) |-> IF s[k] \in DOMAIN ToUpper THEN ToUpper[s[k]] ELSE s[k]]

\* sub in s
contains(sub, s) ==
    \E k \in 0..(Len(s) - Len(sub)) :
        \A j \in 1..Len(sub) : s[k + j] = sub[j]

\* any(w in s for w in words)
contains_any(words, s) == \E w \in words : contains(w, s)

\* sub occurs in s at position k
StartsAt(s, k, sub) ==
    /\ k + Len(sub) - 1 <= Len(s)
    /\ \A j \in 1..Len(sub) : s[k + j - 1] = sub[j]

\* s.count(sub): the occurrences that do not overlap, from the left
count(s, sub) ==
    LET RECURSIVE CountFrom(_)
        CountFrom(k) ==
            IF k + Len(sub) - 1 > Len(s) THEN 0
            ELSE IF StartsAt(s, k, sub) THEN 1 + CountFrom(k + Len(sub))
            ELSE CountFrom(k + 1)
    IN  CountFrom(1)

\* s.strip(chars)
strip(s, chars) ==
    LET kept == {k \in 1..Len(s) : s[k] \notin chars}
    IN  IF kept = {} THEN <<>>
        ELSE SubSeq(s,
                    CHOOSE k \in kept : \A j \in kept : k <= j,
                    CHOOSE k \in kept : \A j \in kept : j <= k)

\* the concatenation of a sequence of sequences
Flatten(ss) ==
    LET RECURSIVE FlattenFrom(_)
        FlattenFrom(k) == IF k > Len(ss) THEN <<>> ELSE ss[k] \o FlattenFrom(k + 1)
    IN  FlattenFrom(1)

\* s repeated n times
Repeat(s, n) == [k \in 1..(n * Len(s)) |-> s[((k - 1) % Len(s)) + 1]]

\* [F(x) for x in s]
Map(s, F(_)) == [k \in 1..Len(s) |-> F(s[k])]

\* the first position of s at which P holds, Len(s) + 1 when there is none
FirstWhere(s, P(_)) ==
    IF \E k \in 1..Len(s) : P(s[k])
    THEN CHOOSE k \in 1..Len(s) : P(s[k]) /\ \A j \in 1..(k - 1) : ~P(s[j])
    ELSE Len(s) + 1

\* the positions at which a key occurs for the first time: the keys of a dict
\* in insertion order
FirstPositions(keys) ==
    SelectSeq([k \in 1..Len(keys) |-> k],
              LAMBDA k : \A j \in 1..(k - 1) : keys[j] # keys[k])

\* the length of the match at position k of s, 0 when there is none, of
\*   year:    (_|\s)?(19|20)\d{2}
\*   month:   (_|\s)?(Jan|Feb|Mar|Apr|May|Jun|Jul|Aug|Sep|Oct|Nov|Dec)
\*   quarter: (_|\s)?Q[1-4]
\* the separator is part of the match whenever the rest matches after it
MatchLen(p, s, k) ==
    LET Months == { <<"J", "a", "n">>, <<"F", "e", "b">>, <<"M", "a", "r">>, <<"A", "p", "r">>, <<"M", "a", "y">>, <<"J", "u", "n">>,
                    <<"J", "u", "l">>, <<"A", "u", "g">>, <<"S", "e", "p">>, <<"O", "c", "t">>, <<"N", "o", "v">>, <<"D", "e", "c">> }
        CoreAt(j) ==
            IF p = "year"
            THEN /\ j + 3 <= Len(s)
                 /\ (StartsAt(s, j, <<"1", "9">>) \/ StartsAt(s, j, <<"2", "0">>))
                 /\ s[j + 2] \in DigitChars
                 /\ s[j + 3] \in DigitChars
            ELSE IF p = "month"
            THEN \E m \in Months : StartsAt(s, j, m)
            ELSE /\ j + 1 <= Len(s)
                 /\ s[j] = "Q"
                 /\ s[j + 1] \in {"1", "2", "3", "4"}
        CoreLen == IF p = "year" THEN 4 ELSE IF p = "month" THEN 3 ELSE 2
    IN  IF (s[k] = "_" \/ s[k] \in Whitespace) /\ CoreAt(k + 1) THEN 1 + CoreLen
        ELSE IF CoreAt(k) THEN CoreLen
        ELSE 0

\* re.sub(pattern, '', s): the leftmost matches are removed
re_sub(p, s) ==
    LET RECURSIVE RemoveFrom(_)
        RemoveFrom(k) ==
            IF k > Len(s) THEN <<>>
            ELSE IF MatchLen(p, s, k) > 0 THEN RemoveFrom(k + MatchLen(p, s, k))
            ELSE <<s[k]>> \o RemoveFrom(k + 1)
    IN  RemoveFrom(1)

(***************************************************************************)
(* The definitions analysed                                                *)
(*                                                                         *)
(* A definition is the content of the analysed file: its format, tables    *)
(* (name, columns, measures, partitions, hierarchies), relationships and   *)
(* roles.  The definitions are built from a small library of tables and    *)
(* relationships chosen so that every check has definitions on which it    *)
(* appends an issue and definitions on which it does not.                  *)
(***************************************************************************)
Formats == {"tmdl", "json"}

Column(name, data_type, calculated, expression) ==
    [name |-> name, data_type |-> data_type, is_hidden |-> FALSE,
     calculated |-> calculated, expression |-> expression]

Measure(name, expression) ==
    [name |-> name, expression |-> expression, format_string |-> <<"0", ".", "0", "0">>]

\* a partition whose source has the given type and, as its expression, the
\* text of that name in MCodeLibrary ("" for no expression)
Partition(name, type, expression) ==
    [name |-> name, mode |-> "import", source |-> [type |-> type, expression |-> expression]]

Table(name, columns, measures, partitions, hierarchies) ==
    [name |-> name, columns |-> columns, measures |-> measures,
     partitions  |-> partitions,
     hierarchies |-> [k \in 1..hierarchies |-> [name |-> <<"h">>, levels |-> << <<"Y", "e", "a", "r">> >>]]]

\* Customer:    nothing to report, its one measure is documented
\* FactSales:   a numeric column typed as text, six calculated columns of which
\*              one aggregates, eleven measures (one very complex, one iterator
\*              without CALCULATE, one documented), six partitions of which
\*              two have the same name, one is not an M partition, one has no
\*              expression and one has an expression that is no let block
\* user_dates:  a date table and a security table, named in snake case
\* Budget2021:  a table of a yearly family, with a hierarchy
\* 'Budget Q3': a quoted name of the same family, no columns
\* Store:       a key column that is text, two pairs of measures that differ
\*              in white space only
TableLibrary ==
    LET Documented == Measure(<<"D", "a", "y", "s">>, <<"/", "/", "d", "a", "y", "s", "\n", "C", "O", "U", "N", "T", "(", "d", ")", " ">>)
    IN  << Table(<<"C", "u", "s", "t", "o", "m", "e", "r">>, <<Column(<<"N", "a", "m", "e">>, <<"s", "t", "r", "i", "n", "g">>, FALSE, <<>>)>>,
                 <<Documented>>, <<Partition(<<"p">>, "calculated", "plain")>>, 0),
           Table(<<"F", "a", "c", "t", "S", "a", "l", "e", "s">>,
                 <<Column(<<"A", "m", "o", "u", "n", "t">>, <<"T", "e", "x", "t">>, FALSE, <<>>),
                   Column(<<"S", "u", "m">>, <<"d", "o", "u", "b", "l", "e">>, TRUE, <<"S", "u", "m", "(", "x", ")">>)>>
                 \o Repeat(<<Column(<<"N", "e", "t">>, <<"d", "o", "u", "b", "l", "e">>, TRUE, <<"x", "-", "y">>)>>, 5),
                 <<Measure(<<"S", "h", "a", "r", "e">>, Repeat(<<"A", "L", "L", "E", "X", "C", "E", "P", "T", "(">>, 7)),
                   Measure(<<"R", "o", "w", "s">>, <<"S", "U", "M", "X", "(", "t", ",", "x", ")">>),
                   Documented>>
                 \o Repeat(<<Measure(<<"T", "o", "t", "a", "l">>, <<"S", "U", "M", "(", "x", ")">>)>>, 8),
                 << Partition(<<"p", "1">>, "m", "plain"), Partition(<<"p", "2">>, "m", "first"),
                    Partition(<<"p", "3">>, "m", "table"), Partition(<<"p", "4">>, "m", ""),
                    Partition(<<"p", "5">>, "calculated", "plain"), Partition(<<"p", "1">>, "m", "folding") >>,
                 0),
           Table(<<"u", "s", "e", "r", "_", "d", "a", "t", "e", "s">>, <<Column(<<"D", "a", "t", "e", "K", "e", "y">>, <<"i", "n", "t", "6", "4">>, FALSE, <<>>)>>,
                 <<>>, <<Partition(<<"p">>, "m", "folding")>>, 0),
           Table(<<"B", "u", "d", "g", "e", "t", "2", "0", "2", "1">>,
                 <<Column(<<"C", "o", "s", "t">>, <<"d", "e", "c", "i", "m", "a", "l">>, FALSE, <<>>),
                   Column(<<"Y", "e", "a", "r">>, <<"i", "n", "t", "6", "4">>, FALSE, <<>>)>>,
                 <<>>, <<Partition(<<"p">>, "m", "insecure")>>, 1),
           Table(<<"'", "B", "u", "d", "g", "e", "t", " ", "Q", "3", "'">>, <<>>, <<>>, <<>>, 0),
           Table(<<"S", "t", "o", "r", "e">>, <<Column(<<"K", "e", "y">>, <<"s", "t", "r", "i", "n", "g">>, FALSE, <<>>)>>,
                 << Measure(<<"S", "a", "l", "e", "s">>, <<"S", "U", "M", "(", "[", "A", "]", ")">>), Measure(<<"T", "o", "p">>, <<"M", "A", "X", "(", "[", "A", "]", ")">>),
                    Measure(<<"S", "p", "a", "c", "e", "d">>, <<"S", "U", "M", "(", " ", "[", "A", "]", " ", ")">>), Measure(<<"S", "p", "l", "i", "t">>, <<"M", "A", "X", " ", "(", "[", "A", "]", ")">>) >>,
                 <<>>, 0) >>

Relationship(from_table, to_table, cardinality, both) ==
    [name |-> <<"r">>, from_table |-> from_table, from_column |-> <<"K", "e", "y">>,
     to_table |-> to_table, to_column |-> <<"K", "e", "y">>,
     cardinality |-> cardinality, both |-> both, is_active |-> TRUE]

RelationshipLibrary ==
    << Relationship(<<"F", "a", "c", "t", "S", "a", "l", "e", "s">>, <<"C", "u", "s", "t", "o", "m", "e", "r">>, "manyToOne", FALSE),
       Relationship(<<"F", "a", "c", "t", "S", "a", "l", "e", "s">>, <<"u", "s", "e", "r", "_", "d", "a", "t", "e", "s">>, "manyToMany", TRUE),
       Relationship(<<"F", "a", "c", "t", "S", "a", "l", "e", "s">>, <<"D", "i", "m", "e", "n", "s", "i", "o", "n", "P", "r", "o", "d", "u", "c", "t">>, "manyToOne", TRUE) >>

Definition(format, tables, relationships, roles) ==
    [kind |-> "definition", format |-> format, tables |-> tables,
     relationships |-> relationships, roles |-> roles]

\* the position of an entry in its library
LibraryPosition(library, x) == CHOOSE k \in 1..Len(library) : library[k] = x

\* s followed by an entry of the library that is not before the last entry of s
Extensions(library, s) ==
    {Append(s, library[k]) :
        k \in {j \in 1..Len(library) :
                  s # <<>> => LibraryPosition(library, s[Len(s)]) <= j}}

(***************************************************************************)
(* The two normalizers of the structural engine                            *)
(*                                                                         *)
(* Each normalizer builds the sections structure the checks read.  The     *)
(* normal form of a table depends on the table alone; it is computed once  *)
(* for each table of the library.                                          *)
(***************************************************************************)
\* len(expression.split('\n'))
line_count(expression) == count(expression, <<"\n">>) + 1

\* complexity_score in tenths, and its class
calculate_dax_complexity(expression) ==
    LET complex_functions ==
            << <<"C", "A", "L", "C", "U", "L", "A", "T", "E">>, <<"C", "A", "L", "C", "U", "L", "A", "T", "E", "T", "A", "B", "L", "E">>, <<"F", "I", "L", "T", "E", "R">>, <<"A", "L", "L">>, <<"A", "L", "L", "E", "X", "C", "E", "P", "T">>,
               <<"S", "U", "M", "X">>, <<"A", "V", "E", "R", "A", "G", "E", "X">>, <<"C", "O", "U", "N", "T", "X">>, <<"M", "A", "X", "X">>, <<"M", "I", "N", "X">>, <<"E", "A", "R", "L", "I", "E", "R">>,
               <<"E", "A", "R", "L", "I", "E", "S", "T">> >>
        RECURSIVE ComplexFrom(_)
        ComplexFrom(k) ==
            IF k > Len(complex_functions) THEN 0
            ELSE count(upper(expression), complex_functions[k]) + ComplexFrom(k + 1)
        complexity_score ==
            count(expression, <<"(">>) * 5
            + ComplexFrom(1) * 20
            + count(upper(expression), <<"V", "A", "R", " ">>) * 10
            + line_count(expression) * 3
    IN  IF complexity_score < 50 THEN "Low"
        ELSE IF complexity_score < 150 THEN "Medium"
        ELSE IF complexity_score < 300 THEN "High"
        ELSE "Very High"

\* match.group(1).strip().strip("'")
unquote(name) == strip(strip(name, Whitespace), {"'"})

extract_measures(table) ==
    Map(table.measures,
        LAMBDA m :
            LET expression == strip(m.expression, Whitespace)
            IN  [name           |-> unquote(m.name),
                 expression     |-> expression,
                 format_string  |-> m.format_string,
                 complexity     |-> calculate_dax_complexity(expression),
                 uses_calculate |-> contains(<<"C", "A", "L", "C", "U", "L", "A", "T", "E">>, upper(expression)),
                 uses_iterator  |->
                     contains_any({ <<"S", "U", "M", "X">>, <<"A", "V", "E", "R", "A", "G", "E", "X">>, <<"C", "O", "U", "N", "T", "X">>, <<"M", "A", "X", "X">>, <<"M", "I", "N", "X">>,
                                    <<"P", "R", "O", "D", "U", "C", "T", "X">> }, upper(expression)),
                 line_count     |-> line_count(expression)])

extract_columns(table) ==
    Map(table.columns,
        LAMBDA c : [name          |-> unquote(c.name),
                    data_type     |-> c.data_type,
                    is_hidden     |-> c.is_hidden,
                    is_calculated |-> c.calculated,
                    expression    |-> IF c.calculated THEN c.expression ELSE <<>>])

\* table_info of _parse_tmdl_sections
extract_table(t) ==
    [name               |-> unquote(t.name),
     columns            |-> extract_columns(t),
     measures           |-> extract_measures(t),
     calculated_columns |-> SelectSeq(extract_columns(t), LAMBDA c : c.is_calculated),
     partitions         |-> t.partitions,
     hierarchies        |-> t.hierarchies]

\* many-to-one unless the text names another cardinality
parse_relationship(r) ==
    [name           |-> r.name,
     from_table     |-> unquote(r.from_table),
     from_column    |-> unquote(r.from_column),
     to_table       |-> unquote(r.to_table),
     to_column      |-> unquote(r.to_column),
     cardinality    |-> IF r.cardinality = "manyToMany" THEN "many-to-many"
                        ELSE IF r.cardinality = "oneToMany" THEN "one-to-many"
                        ELSE IF r.cardinality = "oneToOne" THEN "one-to-one"
                        ELSE "many-to-one",
     cross_filter_direction |-> IF r.both THEN "both" ELSE "single",
     is_active      |-> r.is_active]

\* the table dict of _parse_tmsl_json_sections
json_table(t) ==
    LET columns ==
            Map(t.columns,
                LAMBDA c : [name          |-> c.name,
                            data_type     |-> c.data_type,
                            is_hidden     |-> c.is_hidden,
                            is_calculated |-> c.calculated,
                            expression    |-> IF c.calculated THEN c.expression ELSE <<>>])
    IN  [name               |-> t.name,
         columns            |-> columns,
         measures           |-> Map(t.measures,
                                    LAMBDA m : [name          |-> m.name,
                                                expression    |-> m.expression,
                                                format_string |-> m.format_string]),
         calculated_columns |-> SelectSeq(columns, LAMBDA c : c.is_calculated),
         partitions         |-> t.partitions,
         hierarchies        |-> t.hierarchies]

\* one-to-one and one-to-many are kept, everything else is many-to-one
json_relationship(r) ==
    [name           |-> r.name,
     from_table     |-> r.from_table,
     from_column    |-> r.from_column,
     to_table       |-> r.to_table,
     to_column      |-> r.to_column,
     cardinality    |-> IF r.cardinality = "oneToOne" THEN "one-to-one"
                        ELSE IF r.cardinality = "oneToMany" THEN "one-to-many"
                        ELSE "many-to-one",
     cross_filter_direction |-> IF r.both THEN "both" ELSE "single",
     is_active      |-> r.is_active]

\* the normal form of each table of the library, for each format
normal_tables ==
    [format \in Formats |->
        [k \in 1..Len(TableLibrary) |->
            IF format = "json" THEN json_table(TableLibrary[k])
            ELSE extract_table(TableLibrary[k])]]

\* the measures, calculated columns or hierarchies of all tables, in table order
Aggregate(tables, field) == Flatten([k \in 1..Len(tables) |-> tables[k][field]])

parse_tmdl_sections(d) ==
    LET tables == Map(d.tables, LAMBDA t : normal_tables["tmdl"][LibraryPosition(TableLibrary, t)])
    IN  [tables             |-> tables,
         relationships      |-> Map(d.relationships, parse_relationship),
         measures           |-> Aggregate(tables, "measures"),
         calculated_columns |-> Aggregate(tables, "calculated_columns"),
         hierarchies        |-> Aggregate(tables, "hierarchies"),
         roles              |-> d.roles]

parse_tmsl_json_sections(d) ==
    [tables             |-> Map(d.tables,
                                LAMBDA t : normal_tables["json"][LibraryPosition(TableLibrary, t)]),
     relationships      |-> Map(d.relationships, json_relationship),
     measures           |-> <<>>,
     calculated_columns |-> <<>>,
     hierarchies        |-> <<>>,
     roles              |-> d.roles]

\* mutant: the aggregates over the tables are added to the ones of the parser
normalize_accumulated(d) ==
    LET sections == IF d.format = "json" THEN parse_tmsl_json_sections(d)
                    ELSE parse_tmdl_sections(d)
    IN  [sections EXCEPT
            !.measures           = @ \o Aggregate(sections.tables, "measures"),
            !.calculated_columns = @ \o Aggregate(sections.tables, "calculated_columns"),
            !.hierarchies        = @ \o Aggregate(sections.tables, "hierarchies")]

\* the sections the checks get: sections['measures'] = agg_measures, ... (the
\* aggregates are replaced by the concatenation over the tables)
normalize(d) ==
    LET sections == IF d.format = "json" THEN parse_tmsl_json_sections(d)
                    ELSE parse_tmdl_sections(d)
    IN  [sections EXCEPT
            !.measures           = Aggregate(sections.tables, "measures"),
            !.calculated_columns = Aggregate(sections.tables, "calculated_columns"),
            !.hierarchies        = Aggregate(sections.tables, "hierarchies")]

(***************************************************************************)
(* The checks of the structural engine.  Each gives the issues it appends  *)
(* to self.issues, in the order it appends them; the two checks that can   *)
(* raise also tell whether they did.                                       *)
(***************************************************************************)
\* mutant: every bi-directional relationship is reported as Critical
check_bidirectional_filters_any(sections) ==
    Flatten(Map(sections.relationships,
                LAMBDA rel :
                    IF rel.cross_filter_direction # "both" THEN <<>>
                    ELSE <<Issue("Performance", "Critical", 10,
                                 "Many-to-Many with Bidirectional Filter")>>))

check_bidirectional_filters(sections) ==
    LET unnecessary_patterns ==
            { << <<"f", "a", "c", "t">>, <<"d", "i", "m", "e", "n", "s", "i", "o", "n">> >>, << <<"t", "r", "a", "n", "s", "a", "c", "t", "i", "o", "n">>, <<"l", "o", "o", "k", "u", "p">> >>,
              << <<"d", "e", "t", "a", "i", "l">>, <<"m", "a", "s", "t", "e", "r">> >> }
        is_unnecessary(rel) ==
            \E pattern \in unnecessary_patterns :
                \/ /\ contains(pattern[1], lower(rel.from_table))
                   /\ contains(pattern[2], lower(rel.to_table))
                \/ /\ contains(pattern[2], lower(rel.from_table))
                   /\ contains(pattern[1], lower(rel.to_table))
        of(rel) ==
            IF rel.cross_filter_direction # "both" THEN <<>>
            ELSE IF rel.cardinality = "many-to-many"
            THEN <<Issue("Performance", "Critical", 10, "Many-to-Many with Bidirectional Filter")>>
            ELSE IF is_unnecessary(rel)
            THEN <<Issue("Performance", "High", 5, "Unnecessary Bidirectional Filter")>>
            ELSE <<>>
    IN  Flatten(Map(sections.relationships, of))

\* the table name without year, month and quarter parts
base_name(name) ==
    strip(re_sub("quarter", re_sub("month", re_sub("year", name))), {"_", "-", " "})

\* the column-name sets of the first three tables of the group, each looked
\* up as the first table of that name
table_columns(all_tables, table_names) ==
    [k \in 1..Min(3, Len(table_names)) |->
        LET table == all_tables[FirstWhere(all_tables, LAMBDA t : t.name = table_names[k])]
        IN  {table.columns[c].name : c \in 1..Len(table.columns)}]

\* len(common_columns) / avg_columns > 0.7, "raises" when avg_columns is 0
\* (ZeroDivisionError)
tables_have_similar_structure(all_tables, table_names) ==
    LET tc     == table_columns(all_tables, table_names)
        common == {c \in tc[1] : \A k \in 1..Len(tc) : c \in tc[k]}
        RECURSIVE SumFrom(_)
        SumFrom(k) == IF k > Len(tc) THEN 0 ELSE Cardinality(tc[k]) + SumFrom(k + 1)
    IN  IF Len(tc) < 2 THEN "no"
        ELSE IF SumFrom(1) = 0 THEN "raises"
        ELSE IF Cardinality(common) * Len(tc) * 10 > 7 * SumFrom(1) THEN "yes"
        ELSE "no"

\* the issues of the groups before the first one that raises
check_table_proliferation(sections) ==
    LET tables == sections.tables
        \* table_groups[base_name], in the order of the first table of each group
        Groups(bases, firsts) ==
            [g \in 1..Len(firsts) |->
                LET members == SelectSeq([k \in 1..Len(tables) |-> k],
                                         LAMBDA k : bases[k] = bases[firsts[g]])
                IN  [k \in 1..Len(members) |-> tables[members[k]].name]]
        Similar(table_groups) ==
            [g \in 1..Len(table_groups) |->
                IF Len(table_groups[g]) > 2
                THEN tables_have_similar_structure(tables, table_groups[g])
                ELSE "no"]
        Upto(similar, stop) ==
            [issues |-> Flatten([g \in 1..(stop - 1) |->
                            IF similar[g] = "yes"
                            THEN <<Issue("Model Design", "High", 8, "Table Proliferation Detected")>>
                            ELSE <<>>]),
             raised |-> stop <= Len(similar)]
        Loop(similar) == Upto(similar, FirstWhere(similar, LAMBDA x : x = "raises"))
        Grouped(bases) == Loop(Similar(Groups(bases, FirstPositions(bases))))
    IN  Grouped([k \in 1..Len(tables) |-> base_name(tables[k].name)])

\* measure[key] raises KeyError when the measure does not carry the key
check_measure_complexity(sections) ==
    LET measures == sections.measures
        HasKey(measure, key) == key \in DOMAIN measure
        raises(measure) ==
            \/ ~HasKey(measure, "complexity")
            \/ ~HasKey(measure, "uses_iterator")
            \/ measure.uses_iterator /\ ~HasKey(measure, "uses_calculate")
        \* the issues appended for a measure, up to the read that raises
        of(measure) ==
            IF ~HasKey(measure, "complexity") THEN <<>>
            ELSE (IF measure.complexity = "Very High"
                  THEN <<Issue("Measures", "Medium", 3, "Very Complex Measure")>>
                  ELSE <<>>)
                 \o (IF /\ ~raises(measure)
                        /\ measure.uses_iterator
                        /\ ~measure.uses_calculate
                     THEN <<Issue("Measures", "Low", 2, "Iterator Without CALCULATE")>>
                     ELSE <<>>)
        stop == FirstWhere(measures, raises)
    IN  [issues |-> Flatten([k \in 1..Min(stop, Len(measures)) |-> of(measures[k])]),
         raised |-> stop <= Len(measures)]

check_calculated_columns(sections) ==
    LET aggregations == { <<"S", "U", "M", "(">>, <<"A", "V", "E", "R", "A", "G", "E", "(">>, <<"C", "O", "U", "N", "T", "(">>, <<"M", "A", "X", "(">>, <<"M", "I", "N", "(">> }
        of_column(col) ==
            IF col.expression # <<>> /\ contains_any(aggregations, upper(col.expression))
            THEN <<Issue("Best Practices", "High", 6, "Aggregation in Calculated Column")>>
            ELSE <<>>
        of(table) ==
            (IF Len(table.calculated_columns) > 5
             THEN <<Issue("Performance", "Medium", 4, "Excessive Calculated Columns")>>
             ELSE <<>>)
            \o Flatten(Map(table.calculated_columns, of_column))
    IN  Flatten(Map(sections.tables, of))

\* the style of a table name:  ^[A-Z][a-zA-Z0-9]+$ is PascalCase,
\* ^[a-z][a-zA-Z0-9]+$ is camelCase; $ also matches before one final newline
naming_style(name) ==
    LET b == IF name # <<>> /\ name[Len(name)] = "\n"
             THEN SubSeq(name, 1, Len(name) - 1) ELSE name
        rest_alnum == Len(b) >= 2 /\ \A k \in 2..Len(b) : IsAlnum(b[k])
    IN  IF rest_alnum /\ b[1] \in DOMAIN ToLower THEN "PascalCase"
        ELSE IF rest_alnum /\ b[1] \in DOMAIN ToUpper THEN "camelCase"
        ELSE IF contains(<<"_">>, name) THEN "snake_case"
        ELSE "Mixed"

\* inconsistent_count > len(table_names) * 0.2, the dominant style being the
\* first of the dict with the greatest count
check_naming_conventions(sections) ==
    LET tables == sections.tables
        styles == <<"PascalCase", "camelCase", "snake_case", "Mixed">>
        naming_styles ==
            [k \in 1..Len(styles) |->
                Cardinality({t \in 1..Len(tables) : naming_style(tables[t].name) = styles[k]})]
        dominant == CHOOSE k \in 1..Len(styles) :
                        /\ \A j \in 1..Len(styles) : naming_styles[j] <= naming_styles[k]
                        /\ \A j \in 1..(k - 1) : naming_styles[j] < naming_styles[k]
        inconsistent_count == Len(tables) - naming_styles[dominant]
    IN  IF inconsistent_count * 5 > Len(tables)
        THEN <<Issue("Naming Convention", "Low", 2, "Inconsistent Table Naming Convention")>>
        ELSE <<>>

check_data_types(sections) ==
    LET indicators == { <<"a", "m", "o", "u", "n", "t">>, <<"q", "u", "a", "n", "t", "i", "t", "y">>, <<"p", "r", "i", "c", "e">>, <<"c", "o", "s", "t">>, <<"r", "e", "v", "e", "n", "u", "e">> }
        of_column(column) ==
            IF /\ contains_any(indicators, lower(column.name))
               /\ column.data_type # <<>>
               /\ contains(<<"t", "e", "x", "t">>, lower(column.data_type))
            THEN <<Issue("Model Design", "High", 5, "Incorrect Data Type")>>
            ELSE <<>>
        of(table) == Flatten(Map(table.columns, of_column))
    IN  Flatten(Map(sections.tables, of))

\* any table whose lower-cased name contains one of the words
AnyTableNamed(tables, words) ==
    \E k \in 1..Len(tables) : contains_any(words, lower(tables[k].name))

check_hierarchies(sections) ==
    IF /\ Len(sections.hierarchies) = 0
       /\ AnyTableNamed(sections.tables, { <<"d", "a", "t", "e">>, <<"c", "a", "l", "e", "n", "d", "a", "r">> })
    THEN <<Issue("Best Practices", "Low", 2, "Missing Date Hierarchy")>>
    ELSE <<>>

\* dimension_relationships[dim] is the list of the from-tables of the
\* relationships to dim
check_role_playing_dimensions(sections) ==
    LET rels   == sections.relationships
        dims   == [k \in 1..Len(rels) |-> rels[k].to_table]
        firsts == FirstPositions(dims)
        of(dim) ==
            LET to_dim == SelectSeq(rels, LAMBDA r : r.to_table = dim)
            IN  IF /\ Cardinality({to_dim[k].from_table : k \in 1..Len(to_dim)}) = 1
                   /\ Len(to_dim) > 1
                THEN <<Issue("Model Design", "Info", 0, "Role-Playing Dimension Detected")>>
                ELSE <<>>
    IN  Flatten([g \in 1..Len(firsts) |-> of(dims[firsts[g]])])

check_measure_tables(sections) ==
    LET tables == sections.tables
        outside == SelectSeq(tables, LAMBDA t : ~contains(<<"m", "e", "a", "s", "u", "r", "e">>, lower(t.name)))
        measures_in_fact_tables == Len(Flatten([k \in 1..Len(outside) |-> outside[k].measures]))
    IN  IF measures_in_fact_tables > 10 /\ ~AnyTableNamed(tables, { <<"m", "e", "a", "s", "u", "r", "e">> })
        THEN <<Issue("Best Practices", "Medium", 3, "No Dedicated Measure Table")>>
        ELSE <<>>

\* documented_measures < total_measures * 0.3
check_documentation(sections) ==
    LET documented_measures ==
            Len(SelectSeq(sections.measures,
                          LAMBDA m : contains(<<"/", "/">>, m.expression) \/ contains(<<"/", "*">>, m.expression)))
    IN  IF documented_measures * 10 < Len(sections.measures) * 3
        THEN <<Issue("Documentation", "Low", 2, "Poor Measure Documentation")>>
        ELSE <<>>

check_rls_implementation(sections) ==
    IF /\ Len(sections.roles) = 0
       /\ AnyTableNamed(sections.tables,
                        { <<"u", "s", "e", "r">>, <<"s", "e", "c", "u", "r", "i", "t", "y">>, <<"a", "c", "c", "e", "s", "s">>, <<"p", "e", "r", "m", "i", "s", "s", "i", "o", "n">> })
    THEN <<Issue("Best Practices", "Info", 0, "No RLS Implementation")>>
    ELSE <<>>

check_aggregations(sections) ==
    LET tables == sections.tables
        large_fact_tables ==
            SelectSeq(tables,
                      LAMBDA t : \/ Len(t.partitions) > 1
                                 \/ contains_any({ <<"f", "a", "c", "t">>, <<"t", "r", "a", "n", "s", "a", "c", "t", "i", "o", "n">>, <<"d", "e", "t", "a", "i", "l">> }, lower(t.name)))
    IN  IF Len(large_fact_tables) > 0 /\ ~AnyTableNamed(tables, { <<"a", "g", "g", "r", "e", "g", "a", "t", "i", "o", "n">> })
        THEN <<Issue("Performance", "Info", 0, "Consider Aggregations")>>
        ELSE <<>>

check_incremental_refresh(sections) ==
    LET of(table) ==
            IF Len(table.partitions) > 5
            THEN <<Issue("Performance", "Info", 0, "Incremental Refresh Detected")>>
            ELSE <<>>
    IN  Flatten(Map(sections.tables, of))

(***************************************************************************)
(* analyze_tmdl_export                                                     *)
(***************************************************************************)
\* the fourteen checks in the order of the call list; a check that raises
\* ends the run (_check_relationship_issues is a no-op)
run_all_checks(sections) ==
    LET Run(bidirectional, proliferation, complexity) ==
            IF proliferation.raised
            THEN [issues |-> bidirectional \o proliferation.issues, raised |-> TRUE]
            ELSE IF complexity.raised
            THEN [issues |-> bidirectional \o proliferation.issues \o complexity.issues,
                  raised |-> TRUE]
            ELSE [issues |-> bidirectional
                             \o proliferation.issues
                             \o complexity.issues
                             \o check_calculated_columns(sections)
                             \o check_naming_conventions(sections)
                             \o check_data_types(sections)
                             \o check_hierarchies(sections)
                             \o check_role_playing_dimensions(sections)
                             \o check_measure_tables(sections)
                             \o check_documentation(sections)
                             \o check_rls_implementation(sections)
                             \o check_aggregations(sections)
                             \o check_incremental_refresh(sections),
                  raised |-> FALSE]
    IN  Run(check_bidirectional_filters(sections),
            check_table_proliferation(sections),
            check_measure_complexity(sections))

apply_baseline_penalties_unmeasured(sections) ==
    (IF Len(sections.relationships) = 0
     THEN <<Issue("Model Design", "High", 6, "No Relationships Defined")>> ELSE <<>>)
    \o (IF Len(sections.tables) <= 1
        THEN <<Issue("Model Design", "Medium", 3, "Single-Table Model")>> ELSE <<>>)

\* measures_total is sum(len(t.get('measures', [])) for t in tables)
apply_baseline_penalties(sections) ==
    LET measures_total == Len(Aggregate(sections.tables, "measures"))
    IN  (IF Len(sections.relationships) = 0
         THEN <<Issue("Model Design", "High", 6, "No Relationships Defined")>> ELSE <<>>)
        \o (IF measures_total = 0
            THEN <<Issue("Best Practices", "Medium", 4, "No Measures Present")>> ELSE <<>>)
        \o (IF Len(sections.tables) <= 1
            THEN <<Issue("Model Design", "Medium", 3, "Single-Table Model")>> ELSE <<>>)

reset_issues_kept(prior) == prior

\* self.issues = [] (self.violations = [] in the rule engines)
reset_issues(prior) == <<>>

\* {"error": str(e)}
ErrorReport(error) == [kind |-> "error", error |-> error]

collect_issues_baseline_first(d, prior) ==
    LET Collect(sections, run) ==
            [issues |-> reset_issues(prior)
                        \o (IF run.raised THEN <<>> ELSE apply_baseline_penalties(sections))
                        \o run.issues,
             raised |-> run.raised]
        Checked(sections) == Collect(sections, run_all_checks(sections))
    IN  Checked(normalize(d))

\* the body of the try block up to the scoring: self.issues when it ends, and
\* whether it ended in the except clause
collect_issues(d, prior) ==
    LET Collect(sections, run) ==
            [issues |-> reset_issues(prior)
                        \o run.issues
                        \o (IF run.raised THEN <<>> ELSE apply_baseline_penalties(sections)),
             raised |-> run.raised]
        Checked(sections) == Collect(sections, run_all_checks(sections))
    IN  Checked(normalize(d))

\* the outcomes of the float truncation for an issue list
FloatOutcomes(e, iss) ==
    IF total_penalty(e, iss) > 0 /\ total_penalty(e, iss) % 1000 = 0
    THEN BOOLEAN
    ELSE {FALSE}

(***************************************************************************)
(* Analyses of definitions by the structural engine (SpecAnalyze)          *)
(*                                                                         *)
(* A definition is built table by table and relationship by relationship, *)
(* then analysed once.                                                     *)
(***************************************************************************)
\* most tables and most relationships of a definition
MaxTables == 3
MaxRelationships == 2

InitAnalyze ==
    /\ fp = FALSE
    /\ engine = "structural"
    /\ issues = <<>>
    /\ report = NoReport
    /\ \E format \in Formats, roles \in {<<>>, <<[name |-> <<"R", "e", "a", "d", "e", "r">>]>>} :
           input = Definition(format, <<>>, <<>>, roles)
    /\ violations = <<>>

\* the definition gets one more table; the tables of a definition are in
\* library order
AddTable ==
    /\ report = NoReport
    /\ Len(input.tables) < MaxTables
    /\ \E tables \in Extensions(TableLibrary, input.tables) :
           input' = [input EXCEPT !.tables = tables]
    /\ UNCHANGED <<fp, engine, issues, report, violations>>

\* the definition gets one more relationship; its relationships are in
\* library order
AddRelationship ==
    /\ report = NoReport
    /\ Len(input.relationships) < MaxRelationships
    /\ \E relationships \in Extensions(RelationshipLibrary, input.relationships) :
           input' = [input EXCEPT !.relationships = relationships]
    /\ UNCHANGED <<fp, engine, issues, report, violations>>

\* analyze_tmdl_export(filepath), with no file at filepath or with the
\* definition in the file
AnalyzeExport ==
    /\ report = NoReport
    /\ UNCHANGED <<engine, input, violations>>
    /\ \/ /\ report' = ErrorReport("File not found")
          /\ UNCHANGED <<fp, issues>>
       \/ LET Return(run) ==
                  /\ issues' = run.issues
                  /\ fp' \in (IF run.raised THEN {FALSE} ELSE FloatOutcomes(engine, issues'))
                  /\ \E low_score \in SUBSET (IF run.raised THEN {}
                                              ELSE lossy_scores(engine, issues')),
                        low_percentage \in SUBSET (IF run.raised THEN {}
                                                   ELSE lossy_percentages(engine, issues')) :
                         report' = IF run.raised THEN ErrorReport("Failed to analyze file")
                                   ELSE generate_report(
                                            engine,
                                            calculate_score(engine, issues', fp'),
                                            issues',
                                            calculate_category_scores(engine, issues',
                                                                      low_score, low_percentage),
                                            normalize(input))
          IN  Return(collect_issues(input, issues))

SpecAnalyze ==
    InitAnalyze /\ [][AddTable \/ AddRelationship \/ AnalyzeExport]_vars

(***************************************************************************)
(* The M-code engine: parsing a query into steps                           *)
(***************************************************************************)
\* the least position from `from` on at which P holds, Len(s) + 1 when there
\* is none
FirstFrom(s, from, P(_)) ==
    IF \E k \in from..Len(s) : P(s[k])
    THEN CHOOSE k \in from..Len(s) : P(s[k]) /\ \A j \in from..(k - 1) : ~P(s[j])
    ELSE Len(s) + 1

\* the first position after a greedy \s* that starts at `from`
SkipSpace(s, from) == FirstFrom(s, from, LAMBDA c : c \notin Whitespace)

\* self.folding_breakers
folding_breakers ==
    << <<"T", "a", "b", "l", "e", ".", "A", "d", "d", "C", "o", "l", "u", "m", "n">>, <<"T", "a", "b", "l", "e", ".", "A", "d", "d", "I", "n", "d", "e", "x", "C", "o", "l", "u", "m", "n">>, <<"T", "a", "b", "l", "e", ".", "A", "l", "t", "e", "r", "n", "a", "t", "e", "R", "o", "w", "s">>,
       <<"T", "a", "b", "l", "e", ".", "C", "o", "m", "b", "i", "n", "e">>, <<"T", "a", "b", "l", "e", ".", "F", "i", "l", "l", "D", "o", "w", "n">>, <<"T", "a", "b", "l", "e", ".", "F", "i", "l", "l", "U", "p">>, <<"T", "a", "b", "l", "e", ".", "R", "a", "n", "g", "e">>,
       <<"T", "a", "b", "l", "e", ".", "R", "e", "p", "e", "a", "t">>, <<"T", "a", "b", "l", "e", ".", "R", "e", "p", "l", "a", "c", "e", "M", "a", "t", "c", "h", "i", "n", "g", "R", "o", "w", "s">>, <<"T", "a", "b", "l", "e", ".", "R", "e", "v", "e", "r", "s", "e", "R", "o", "w", "s">>,
       <<"T", "a", "b", "l", "e", ".", "S", "p", "l", "i", "t">>, <<"T", "a", "b", "l", "e", ".", "T", "r", "a", "n", "s", "p", "o", "s", "e">>, <<"L", "i", "s", "t", ".">>, <<"T", "e", "x", "t", ".">>, <<"D", "a", "t", "e", ".">> >>

check_breaks_folding(expression) ==
    \E k \in 1..Len(folding_breakers) : contains(folding_breakers[k], expression)

\* _parse_query_steps: the steps of the first let ... in block, numbered in
\* the order of the matches (the step type, which only descriptions use, is
\* left out); the
\* locals are the pieces of step_pattern and of the let ... in pattern
parse_query_steps(mcode) ==
    LET
        \* \w
        IsWord(c) == IsAlnum(c) \/ c = "_"

        \* the first position after a greedy \w+ that starts at `from`
        SkipWord(s, from) == FirstFrom(s, from, LAMBDA c : ~IsWord(c))

        \* the first position after a greedy [^,\n]+ that starts at `from`
        SkipValue(s, from) == FirstFrom(s, from, LAMBDA c : c \in {",", "\n"})

        \* (?:\n\s+[^,\n]+)* from position k on: the position after the last
        \* continuation line
        RECURSIVE SkipContinuations(_, _)
        SkipContinuations(s, k) ==
            IF /\ k + 1 <= Len(s)
               /\ s[k] = "\n"
               /\ s[k + 1] \in Whitespace
               /\ SkipSpace(s, k + 1) <= Len(s)
               /\ s[SkipSpace(s, k + 1)] # ","
            THEN SkipContinuations(s, SkipValue(s, SkipSpace(s, k + 1)))
            ELSE k

        \* (\w+)\s*=\s*([^,\n]+(?:\n\s+[^,\n]+)*) matches at position k of s, and at
        \* no position of the same word between `from` and k
        StepAt(s, from, k) ==
            /\ IsWord(s[k])
            /\ k = from \/ ~IsWord(s[k - 1])
            /\ SkipSpace(s, SkipWord(s, k)) <= Len(s)
            /\ s[SkipSpace(s, SkipWord(s, k))] = "="
            /\ \/ /\ SkipSpace(s, SkipSpace(s, SkipWord(s, k)) + 1) <= Len(s)
                  /\ s[SkipSpace(s, SkipSpace(s, SkipWord(s, k)) + 1)] # ","
               \/ \E j \in (SkipSpace(s, SkipWord(s, k)) + 1)
                               ..(SkipSpace(s, SkipSpace(s, SkipWord(s, k)) + 1) - 1) :
                      s[j] # "\n"

        \* the match whose name is s[k..word-1] and whose expression starts at value
        \* (the position after the greedy \s* that follows the "=")
        StepMatch(s, k, word, value) ==
            IF value <= Len(s) /\ s[value] # ","
            THEN [name       |-> SubSeq(s, k, word - 1),
                  expression |-> SubSeq(s, value, SkipContinuations(s, SkipValue(s, value)) - 1),
                  end        |-> SkipContinuations(s, SkipValue(s, value))]
            ELSE \* only white space is left for the expression
                 [name |-> SubSeq(s, k, word - 1), expression |-> <<>>, end |-> value]

        \* the matches of re.finditer(step_pattern, s) from position `from` on
        RECURSIVE StepMatches(_, _)
        StepMatches(s, from) ==
            IF \E k \in from..Len(s) : StepAt(s, from, k)
            THEN LET Rest(m) == <<m>> \o StepMatches(s, m.end)
                     At(k) == Rest(StepMatch(s, k, SkipWord(s, k),
                                             SkipSpace(s, SkipSpace(s, SkipWord(s, k)) + 1)))
                 IN  At(CHOOSE k \in from..Len(s) :
                            /\ StepAt(s, from, k)
                            /\ \A j \in from..(k - 1) : ~StepAt(s, from, j))
            ELSE <<>>

        \* \s+in\s+(\w+) matches at position k of s
        InAt(s, k) ==
            /\ s[k] \in Whitespace
            /\ StartsAt(s, SkipSpace(s, k), <<"i", "n">>)
            /\ SkipSpace(s, k) + 2 <= Len(s)
            /\ s[SkipSpace(s, k) + 2] \in Whitespace
            /\ SkipSpace(s, SkipSpace(s, k) + 2) <= Len(s)
            /\ IsWord(s[SkipSpace(s, SkipSpace(s, k) + 2)])

        \* let\s+(.*?)\s+in\s+(\w+) matches at position k of s
        LetAt(s, k) ==
            /\ StartsAt(s, k, <<"l", "e", "t">>)
            /\ k + 3 <= Len(s)
            /\ s[k + 3] \in Whitespace
            /\ \E j \in SkipSpace(s, k + 3)..Len(s) : InAt(s, j)
    IN
        IF ~\E k \in 1..Len(mcode) : LetAt(mcode, k)
        THEN <<>>
        ELSE LET Steps(matches) ==
                     [i \in 1..Len(matches) |->
                         [name           |-> matches[i].name,
                          expression     |-> strip(matches[i].expression, Whitespace),
                          line_number    |-> i,
                          breaks_folding |->
                              check_breaks_folding(strip(matches[i].expression, Whitespace))]]
                 Content(start) ==
                     SubSeq(mcode, start,
                            (CHOOSE j \in start..Len(mcode) :
                                 /\ InAt(mcode, j)
                                 /\ \A i \in start..(j - 1) : ~InAt(mcode, i)) - 1)
                 Let(k) == Steps(StepMatches(Content(SkipSpace(mcode, k + 3)), 1))
             IN  Let(CHOOSE k \in 1..Len(mcode) :
                         /\ LetAt(mcode, k)
                         /\ \A j \in 1..(k - 1) : ~LetAt(mcode, j))

(***************************************************************************)
(* The M-code engine: the checks of a query.  Each gives the issues it     *)
(* appends to self.issues, in the order it appends them.                   *)
(***************************************************************************)
\* MCodeIssue(...): the fields the reports and the scores read; line_number
\* is 0 where the code leaves it None
MCodeIssue(category, severity, impact_score, title, line_number, query_name) ==
    [category |-> category, severity |-> severity, impact_score |-> impact_score,
     title |-> title, line_number |-> line_number, query_name |-> query_name]

\* sum(1 for step in steps if P(step))
CountSteps(steps, P(_)) == Cardinality({k \in 1..Len(steps) : P(steps[k])})

\* mutant: the check does not look at the steps after the break
check_query_folding_blind(query_name, steps) ==
    LET breakers == {i \in 1..Len(steps) : steps[i].breaks_folding}
    IN  IF /\ Len(steps) > 0
           /\ \/ contains(<<"S", "q", "l", ".", "D", "a", "t", "a", "b", "a", "s", "e">>, steps[1].expression)
              \/ contains(<<"O", "D", "a", "t", "a", ".", "F", "e", "e", "d">>, steps[1].expression)
              \/ contains(<<"S", "h", "a", "r", "e", "P", "o", "i", "n", "t", ".">>, steps[1].expression)
           /\ breakers # {}
        THEN <<MCodeIssue("Query Folding", "Medium", 4, "Query Folding Broken",
                          CHOOSE k \in breakers : \A j \in breakers : k <= j, query_name)>>
        ELSE <<>>

\* mutant: the check does not look at the source of the first step
check_query_folding_unsourced(query_name, steps) ==
    LET RECURSIVE FoldingFrom(_, _)
        FoldingFrom(i, folding_broken_at) ==
            IF i > Len(steps) THEN <<>>
            ELSE IF steps[i].breaks_folding /\ folding_broken_at \in {-1, 0}
            THEN << IF \E j \in (i + 1)..Len(steps) : contains(<<"S", "e", "l", "e", "c", "t", "R", "o", "w", "s">>, steps[j].expression)
                    THEN MCodeIssue("Query Folding", "High", 8,
                                    "Query Folding Broken Before Filters",
                                    steps[i].line_number, query_name)
                    ELSE MCodeIssue("Query Folding", "Medium", 4, "Query Folding Broken",
                                    steps[i].line_number, query_name) >>
                 \o FoldingFrom(i + 1, i - 1)
            ELSE FoldingFrom(i + 1, folding_broken_at)
    IN  FoldingFrom(1, -1)

\* the loop of _check_query_folding from step i on (0-based index i - 1);
\* folding_broken_at is -1 for None.  "not folding_broken_at" is also true
\* of the index 0
check_query_folding(query_name, steps) ==
    LET RECURSIVE FoldingFrom(_, _)
        FoldingFrom(i, folding_broken_at) ==
            IF i > Len(steps) THEN <<>>
            ELSE IF steps[i].breaks_folding /\ folding_broken_at \in {-1, 0}
            THEN << IF \E j \in (i + 1)..Len(steps) : contains(<<"S", "e", "l", "e", "c", "t", "R", "o", "w", "s">>, steps[j].expression)
                    THEN MCodeIssue("Query Folding", "High", 8,
                                    "Query Folding Broken Before Filters",
                                    steps[i].line_number, query_name)
                    ELSE MCodeIssue("Query Folding", "Medium", 4, "Query Folding Broken",
                                    steps[i].line_number, query_name) >>
                 \o FoldingFrom(i + 1, i - 1)
            ELSE FoldingFrom(i + 1, folding_broken_at)
    IN  IF /\ Len(steps) > 0
           /\ \/ contains(<<"S", "q", "l", ".", "D", "a", "t", "a", "b", "a", "s", "e">>, steps[1].expression)
              \/ contains(<<"O", "D", "a", "t", "a", ".", "F", "e", "e", "d">>, steps[1].expression)
              \/ contains(<<"S", "h", "a", "r", "e", "P", "o", "i", "n", "t", ".">>, steps[1].expression)
        THEN FoldingFrom(1, -1)
        ELSE <<>>

check_performance_issues(query_name, steps) ==
    (IF CountSteps(steps, LAMBDA step : /\ contains(<<"T", "a", "b", "l", "e", ".", "A", "d", "d", "C", "o", "l", "u", "m", "n">>, step.expression)
                                        /\ contains(<<"e", "a", "c", "h">>, step.expression)) > 3
     THEN <<MCodeIssue("Performance", "High", 6, "Excessive Nested Operations", 0, query_name)>>
     ELSE <<>>)
    \o (IF CountSteps(steps, LAMBDA step : contains(<<"T", "a", "b", "l", "e", ".", "S", "o", "r", "t">>, step.expression)) > 1
        THEN <<MCodeIssue("Performance", "Medium", 3, "Multiple Sort Operations", 0, query_name)>>
        ELSE <<>>)
    \o Flatten([k \in 1..Len(steps) |->
                   IF contains(<<"T", "a", "b", "l", "e", ".", "C", "o", "n", "t", "a", "i", "n", "s">>, steps[k].expression)
                   THEN <<MCodeIssue("Performance", "High", 6,
                                     "Inefficient Table.Contains Usage",
                                     steps[k].line_number, query_name)>>
                   ELSE <<>>])
    \o (IF /\ ~\E k \in 1..Len(steps) :
                  contains(<<"T", "a", "b", "l", "e", ".", "T", "r", "a", "n", "s", "f", "o", "r", "m", "C", "o", "l", "u", "m", "n", "T", "y", "p", "e", "s">>, steps[k].expression)
           /\ Len(steps) > 3
        THEN <<MCodeIssue("Performance", "Medium", 4, "Missing Data Type Definitions", 0,
                          query_name)>>
        ELSE <<>>)

check_error_handling(query_name, mcode) ==
    LET For(has_try) ==
            (IF ~has_try /\ Len(mcode) > 200
             THEN <<MCodeIssue("Error Handling", "Medium", 3, "No Error Handling", 0,
                               query_name)>>
             ELSE <<>>)
            \o (IF contains(<<"W", "e", "b", ".", "C", "o", "n", "t", "e", "n", "t", "s">>, mcode) /\ ~has_try
                THEN <<MCodeIssue("Error Handling", "High", 5,
                                  "No Error Handling for Web Requests", 0, query_name)>>
                ELSE <<>>)
            \o (IF contains(<<"S", "q", "l", ".", "D", "a", "t", "a", "b", "a", "s", "e">>, mcode) /\ ~has_try
                THEN <<MCodeIssue("Error Handling", "High", 5,
                                  "No Error Handling for Database Connections", 0, query_name)>>
                ELSE <<>>)
            \o (IF contains(<<"V", "a", "l", "u", "e", ".", "F", "r", "o", "m", "T", "e", "x", "t">>, mcode) /\ ~has_try
                THEN <<MCodeIssue("Error Handling", "High", 5,
                                  "No Error Handling for Type Conversions", 0, query_name)>>
                ELSE <<>>)
    IN  For(contains(<<"t", "r", "y">>, lower(mcode)))

check_data_quality(query_name, steps) ==
    (IF /\ ~\E k \in 1..Len(steps) :
               contains_any({ <<"T", "a", "b", "l", "e", ".", "R", "e", "p", "l", "a", "c", "e", "V", "a", "l", "u", "e">>, <<"T", "a", "b", "l", "e", ".", "F", "i", "l", "l", "D", "o", "w", "n">>, <<"T", "a", "b", "l", "e", ".", "F", "i", "l", "l", "U", "p">>,
                              <<"T", "a", "b", "l", "e", ".", "T", "r", "a", "n", "s", "f", "o", "r", "m", "C", "o", "l", "u", "m", "n", "s">> }, steps[k].expression)
        /\ Len(steps) > 5
     THEN <<MCodeIssue("Data Quality", "Low", 2, "No Explicit Null Handling", 0, query_name)>>
     ELSE <<>>)
    \o (IF /\ ~\E k \in 1..Len(steps) : contains(<<"T", "a", "b", "l", "e", ".", "D", "i", "s", "t", "i", "n", "c", "t">>, steps[k].expression)
           /\ ~\E k \in 1..Len(steps) : contains(<<"T", "a", "b", "l", "e", ".", "G", "r", "o", "u", "p">>, steps[k].expression)
           /\ Len(steps) > 5
        THEN <<MCodeIssue("Data Quality", "Info", 0, "No Duplicate Handling", 0, query_name)>>
        ELSE <<>>)
    \o (IF /\ ~\E k \in 1..Len(steps) :
                  /\ contains(<<"T", "a", "b", "l", "e", ".", "S", "e", "l", "e", "c", "t", "R", "o", "w", "s">>, steps[k].expression)
                  /\ contains_any({ <<">">>, <<"<">>, <<"=">>, <<"<", ">">> }, steps[k].expression)
           /\ Len(steps) > 5
        THEN <<MCodeIssue("Data Quality", "Low", 2, "No Data Validation", 0, query_name)>>
        ELSE <<>>)

\* the M-code engine's _check_naming_conventions, over the step names
check_step_naming(query_name, steps) ==
    LET has_spaces == \E k \in 1..Len(steps) : contains(<<" ">>, steps[k].name)
        has_underscores == \E k \in 1..Len(steps) : contains(<<"_">>, steps[k].name)
        has_camelCase ==
            \E k \in 1..Len(steps) :
                /\ steps[k].name[1] \in DOMAIN ToUpper   \* a lower-case letter
                /\ \E j \in 2..Len(steps[k].name) :
                       steps[k].name[j] \in DOMAIN ToLower   \* an upper-case letter
        generic_names == { <<"C", "u", "s", "t", "o", "m", "1">>, <<"C", "u", "s", "t", "o", "m", "2">>, <<"S", "t", "e", "p", "1">>, <<"S", "t", "e", "p", "2">>, <<"T", "a", "b", "l", "e", "1">>,
                           <<"T", "a", "b", "l", "e", "2">> }
    IN  (IF Cardinality({b \in {"spaces", "underscores", "camelCase"} :
                            \/ b = "spaces" /\ has_spaces
                            \/ b = "underscores" /\ has_underscores
                            \/ b = "camelCase" /\ has_camelCase}) > 1
         THEN <<MCodeIssue("Naming Convention", "Low", 1, "Inconsistent Step Naming", 0,
                           query_name)>>
         ELSE <<>>)
        \o (IF CountSteps(steps, LAMBDA step : contains_any(generic_names, step.name)) > 2
            THEN <<MCodeIssue("Naming Convention", "Medium", 2, "Non-Descriptive Step Names",
                              0, query_name)>>
            ELSE <<>>)

\* the M-code engine's _check_documentation, over the query text
check_query_documentation(query_name, mcode) ==
    IF /\ ~(contains(<<"/", "/">>, mcode) \/ contains(<<"/", "*">>, mcode))
       /\ Len(mcode) > 500
    THEN <<MCodeIssue("Documentation", "Low", 1, "No Documentation", 0, query_name)>>
    ELSE <<>>

\* HasCredential is re.search(word + r'\s*=\s*"[^"]+"', mcode, re.IGNORECASE)
check_security_issues(query_name, mcode) ==
    LET HasCredential(word) ==
            \E k \in 1..Len(mcode) :
                /\ StartsAt(lower(mcode), k, word)
                /\ SkipSpace(mcode, k + Len(word)) <= Len(mcode)
                /\ mcode[SkipSpace(mcode, k + Len(word))] = "="
                /\ SkipSpace(mcode, SkipSpace(mcode, k + Len(word)) + 1) + 1 <= Len(mcode)
                /\ mcode[SkipSpace(mcode, SkipSpace(mcode, k + Len(word)) + 1)] = "\""
                /\ mcode[SkipSpace(mcode, SkipSpace(mcode, k + Len(word)) + 1) + 1] # "\""
                /\ \E j \in (SkipSpace(mcode, SkipSpace(mcode, k + Len(word)) + 1) + 2)..Len(mcode) :
                       mcode[j] = "\""
    IN  (IF HasCredential(<<"p", "a", "s", "s", "w", "o", "r", "d">>)
         THEN <<MCodeIssue("Security", "Critical", 10, "Hardcoded Password", 0, query_name)>>
         ELSE <<>>)
        \o (IF HasCredential(<<"p", "w", "d">>)
            THEN <<MCodeIssue("Security", "Critical", 10, "Hardcoded Password", 0, query_name)>>
            ELSE <<>>)
        \o (IF HasCredential(<<"a", "p", "i", "k", "e", "y">>)
            THEN <<MCodeIssue("Security", "Critical", 10, "Hardcoded Api Key", 0, query_name)>>
            ELSE <<>>)
        \o (IF HasCredential(<<"t", "o", "k", "e", "n">>)
            THEN <<MCodeIssue("Security", "Critical", 10, "Hardcoded Token", 0, query_name)>>
            ELSE <<>>)
        \o (IF contains(<<"W", "e", "b", ".", "C", "o", "n", "t", "e", "n", "t", "s">>, mcode) /\ ~contains(<<"h", "t", "t", "p", "s", ":", "/", "/">>, mcode)
            THEN <<MCodeIssue("Security", "High", 6, "Unsecured Web Request", 0, query_name)>>
            ELSE <<>>)

check_best_practices(query_name, steps) ==
    (IF /\ \E i \in 1..Len(steps), p \in 1..Len(steps) :
               /\ p < i
               /\ \E a, b \in 1..Len(steps[i].expression) :
                      /\ StartsAt(steps[i].expression, a, steps[p].name)
                      /\ StartsAt(steps[i].expression, b, steps[p].name)
                      /\ b >= a + Len(steps[p].name)
        /\ ~\E k \in 1..Len(steps) :
               \/ contains(<<"T", "a", "b", "l", "e", ".", "B", "u", "f", "f", "e", "r">>, steps[k].expression)
               \/ contains(<<"L", "i", "s", "t", ".", "B", "u", "f", "f", "e", "r">>, steps[k].expression)
     THEN <<MCodeIssue("Performance", "Medium", 3, "Missing Buffer for Multiple References",
                       0, query_name)>>
     ELSE <<>>)
    \o (IF /\ CountSteps(steps, LAMBDA step :
                             contains(<<"T", "a", "b", "l", "e", ".", "R", "e", "m", "o", "v", "e", "C", "o", "l", "u", "m", "n", "s">>, step.expression)) > 2
           /\ CountSteps(steps, LAMBDA step :
                             contains(<<"T", "a", "b", "l", "e", ".", "S", "e", "l", "e", "c", "t", "C", "o", "l", "u", "m", "n", "s">>, step.expression)) = 0
        THEN <<MCodeIssue("Best Practices", "Medium", 3, "Inefficient Column Removal", 0,
                          query_name)>>
        ELSE <<>>)
    \o (IF Len(steps) > 0 /\ contains(<<"E", "x", "c", "e", "l", ".", "W", "o", "r", "k", "b", "o", "o", "k">>, steps[1].expression)
        THEN <<MCodeIssue("Best Practices", "Info", 0, "Excel as Data Source", 0, query_name)>>
        ELSE <<>>)
    \o (IF CountSteps(steps, LAMBDA step :
                          \/ contains(<<"T", "a", "b", "l", "e", ".", "J", "o", "i", "n">>, step.expression)
                          \/ contains(<<"T", "a", "b", "l", "e", ".", "N", "e", "s", "t", "e", "d", "J", "o", "i", "n">>, step.expression)) > 2
        THEN <<MCodeIssue("Performance", "Medium", 4, "Multiple Merge Operations", 0,
                          query_name)>>
        ELSE <<>>)
    \o Flatten([k \in 1..Len(steps) |->
                   IF /\ contains(<<"T", "a", "b", "l", "e", ".", "A", "d", "d", "C", "o", "l", "u", "m", "n">>, steps[k].expression)
                      /\ contains(<<"L", "i", "s", "t", ".">>, steps[k].expression)
                   THEN <<MCodeIssue("Performance", "High", 5, "List Operation in Row Context",
                                     steps[k].line_number, query_name)>>
                   ELSE <<>>])

\* the issues _analyze_query appends to self.issues
analyze_query(query_name, mcode) ==
    LET Checks(steps) ==
            check_query_folding(query_name, steps)
            \o check_performance_issues(query_name, steps)
            \o check_error_handling(query_name, mcode)
            \o check_data_quality(query_name, steps)
            \o check_step_naming(query_name, steps)
            \o check_query_documentation(query_name, mcode)
            \o check_security_issues(query_name, mcode)
            \o check_best_practices(query_name, steps)
    IN  Checks(parse_query_steps(mcode))

(***************************************************************************)
(* The M-code engine: the queries of a file                                *)
(***************************************************************************)
\* the M texts that the partitions of the library name
\*   plain:    nothing to report
\*   folding:  an SQL source, a folding breaker at step 3, a filter at step 5
\*   first:    the first step is itself a folding breaker, a later step too
\*   insecure: a web request without TLS and with a token in it, two sorts
\*   table:    an expression that is no let block
MCodeLibrary ==
    [q \in {"", "plain", "folding", "first", "insecure", "table"} |->
        CASE q = ""         -> <<>>
          [] q = "plain"    -> <<"l", "e", "t", " ", "a", " ", "=", " ", "1", " ", "i", "n", " ", "a">>
          [] q = "folding"  -> <<"l", "e", "t", "\n", " ", " ", " ", " ", "S", "o", "u", "r", "c", "e", " ", "=", " ", "S", "q", "l", ".", "D", "a", "t", "a", "b", "a", "s", "e", "(", "\"", "s", "r", "v", "\"", ",", " ", "\"", "d", "b", "\"", ")", ",", "\n", " ", " ", " ", " ", "S", "a", "l", "e", "s", " ", "=", " ", "S", "o", "u", "r", "c", "e", "{", "[", "S", "c", "h", "e", "m", "a", "=", "\"", "d", "b", "o", "\"", "]", "}", "[", "D", "a", "t", "a", "]", ",", "\n", " ", " ", " ", " ", "A", "d", "d", "e", "d", " ", "=", " ", "T", "a", "b", "l", "e", ".", "A", "d", "d", "C", "o", "l", "u", "m", "n", "(", "S", "a", "l", "e", "s", ",", " ", "\"", "N", "e", "t", "\"", ",", " ", "e", "a", "c", "h", " ", "[", "a", "]", " ", "-", " ", "[", "b", "]", ")", ",", "\n", " ", " ", " ", " ", "S", "o", "r", "t", "e", "d", " ", "=", " ", "T", "a", "b", "l", "e", ".", "S", "o", "r", "t", "(", "A", "d", "d", "e", "d", ",", " ", "{", "\"", "N", "e", "t", "\"", "}", ")", ",", "\n", " ", " ", " ", " ", "F", "i", "l", "t", "e", "r", "e", "d", " ", "=", " ", "T", "a", "b", "l", "e", ".", "S", "e", "l", "e", "c", "t", "R", "o", "w", "s", "(", "S", "o", "r", "t", "e", "d", ",", " ", "e", "a", "c", "h", " ", "[", "N", "e", "t", "]", " ", ">", " ", "0", ")", "\n", "i", "n", "\n", " ", " ", " ", " ", "F", "i", "l", "t", "e", "r", "e", "d">>
          [] q = "first"    -> <<"l", "e", "t", "\n", " ", " ", " ", " ", "S", "o", "u", "r", "c", "e", " ", "=", " ", "T", "a", "b", "l", "e", ".", "C", "o", "m", "b", "i", "n", "e", "(", "{", "S", "q", "l", ".", "D", "a", "t", "a", "b", "a", "s", "e", "(", "\"", "s", "\"", ",", " ", "\"", "d", "\"", ")", ",", " ", "O", "t", "h", "e", "r", "}", ")", ",", "\n", " ", " ", " ", " ", "M", "e", "r", "g", "e", "d", " ", "=", " ", "T", "a", "b", "l", "e", ".", "F", "i", "l", "l", "D", "o", "w", "n", "(", "S", "o", "u", "r", "c", "e", ",", " ", "{", "\"", "x", "\"", "}", ")", ",", "\n", " ", " ", " ", " ", "F", "i", "l", "l", "e", "d", " ", "=", " ", "T", "a", "b", "l", "e", ".", "F", "i", "l", "l", "U", "p", "(", "M", "e", "r", "g", "e", "d", ",", " ", "{", "\"", "x", "\"", "}", ")", "\n", "i", "n", "\n", " ", " ", " ", " ", "F", "i", "l", "l", "e", "d">>
          [] q = "insecure" -> <<"l", "e", "t", "\n", " ", " ", " ", " ", "S", "o", "u", "r", "c", "e", " ", "=", " ", "E", "x", "c", "e", "l", ".", "W", "o", "r", "k", "b", "o", "o", "k", "(", "W", "e", "b", ".", "C", "o", "n", "t", "e", "n", "t", "s", "(", "\"", "h", "t", "t", "p", ":", "/", "/", "x", ".", "o", "r", "g", "/", "b", ".", "x", "l", "s", "x", "?", "t", "o", "k", "e", "n", "=", "\"", "a", "b", "c", "\"", "\"", ")", ")", ",", "\n", " ", " ", " ", " ", "S", "1", " ", "=", " ", "T", "a", "b", "l", "e", ".", "S", "o", "r", "t", "(", "S", "o", "u", "r", "c", "e", ",", " ", "{", "\"", "a", "\"", "}", ")", ",", "\n", " ", " ", " ", " ", "S", "2", " ", "=", " ", "T", "a", "b", "l", "e", ".", "S", "o", "r", "t", "(", "S", "1", ",", " ", "{", "\"", "b", "\"", "}", ")", "\n", "i", "n", "\n", " ", " ", " ", " ", "S", "2">>
          [] q = "table"    -> <<"#", "t", "a", "b", "l", "e", "(", "{", "\"", "a", "\"", "}", ",", " ", "{", "}", ")">>]

\* what _analyze_query appends for each text of the library, whatever the
\* name of the query
library_issues ==
    [q \in DOMAIN MCodeLibrary |-> analyze_query(<<>>, MCodeLibrary[q])]

\* the items of the dict built by d[pair.name] = pair.expression over the
\* pairs: each key at the place of its first assignment, with the value of
\* its last
DictItems(pairs) ==
    LET Items(firsts) ==
            [k \in 1..Len(firsts) |->
                [name       |-> pairs[firsts[k]].name,
                 expression |->
                     pairs[CHOOSE j \in 1..Len(pairs) :
                               /\ pairs[j].name = pairs[firsts[k]].name
                               /\ \A i \in (j + 1)..Len(pairs) :
                                      pairs[i].name # pairs[j].name].expression]]
    IN  Items(FirstPositions([k \in 1..Len(pairs) |-> pairs[k].name]))

\* _extract_mcode_queries: the partitions "partition <name> = m", "mode:
\* import", "source = <text>" of a TMDL text whose text starts with let; a
\* JSON text has no line of this form
extract_mcode_queries(d) ==
    IF d.format # "tmdl" THEN <<>>
    ELSE DictItems(Flatten([t \in 1..Len(d.tables) |->
             Flatten([p \in 1..Len(d.tables[t].partitions) |->
                 IF /\ d.tables[t].partitions[p].source.type = "m"
                    /\ d.tables[t].partitions[p].mode = "import"
                    /\ StartsAt(strip(MCodeLibrary[d.tables[t].partitions[p].source.expression],
                                      Whitespace), 1, <<"l", "e", "t">>)
                 THEN << [name       |-> unquote(d.tables[t].partitions[p].name),
                          expression |-> d.tables[t].partitions[p].source.expression] >>
                 ELSE <<>>])]))

\* extract_mcode_from_json: the partitions of model['tables'] whose source
\* has type 'm' and an expression; a model nested under the key 'model' has
\* no key 'tables'
extract_mcode_from_json(d) ==
    IF d.nested THEN <<>>
    ELSE DictItems(Flatten([t \in 1..Len(d.tables) |->
             Flatten([p \in 1..Len(d.tables[t].partitions) |->
                 IF /\ d.tables[t].partitions[p].source.type = "m"
                    /\ MCodeLibrary[d.tables[t].partitions[p].source.expression] # <<>>
                 THEN << [name       |-> d.tables[t].name \o <<".">>
                                             \o d.tables[t].partitions[p].name,
                          expression |-> d.tables[t].partitions[p].source.expression] >>
                 ELSE <<>>])]))

\* self.issues after the loop "for query_name, mcode in queries.items():
\* self._analyze_query(query_name, mcode)" on the reset list
analyze_queries(queries, prior) ==
    LET \* what _analyze_query(query_name, mcode) appends, mcode being the
        \* text that `expression` names
        query_issues(query_name, expression) ==
            [k \in 1..Len(library_issues[expression]) |->
                [library_issues[expression][k] EXCEPT !.query_name = query_name]]
    IN  reset_issues(prior)
        \o Flatten([k \in 1..Len(queries) |->
                       query_issues(queries[k].name, queries[k].expression)])

(***************************************************************************)
(* The unified analyzer                                                    *)
(***************************************************************************)
\* UnifiedPowerBIAnalyzer.DEFAULT_WEIGHTS, in hundredths, in the order of the
\* dict (the key of the M-code performance weight is written with a
\* non-breaking hyphen in the source, here and in unified_pct alike)
DEFAULT_WEIGHTS ==
    << [category |-> "Model Design",       weight |-> 15],
       [category |-> "Relationships",      weight |-> 15],
       [category |-> "DAX Measures",       weight |-> 15],
       [category |-> "M-Code Performance", weight |-> 20],
       [category |-> "Query Folding",      weight |-> 15],
       [category |-> "Documentation",      weight |-> 10],
       [category |-> "Naming",             weight |-> 5],
       [category |-> "Security",           weight |-> 5] >>

\* sum(ns)
RECURSIVE Sum(_)
Sum(ns) == IF ns = <<>> THEN 0 ELSE Head(ns) + Sum(Tail(ns))

\* UnifiedPowerBIAnalyzer(weights): self.weights[k] is weights[k].weight /
\* total, kept as a numerator over a positive total; a total of zero makes
\* every weight zero, no weights are the default weights
UnifiedPowerBIAnalyzer(weights) ==
    LET Normalised(total) ==
            IF total = 0
            THEN [name    |-> "unified",
                  weights |-> [k \in 1..Len(weights) |-> [weights[k] EXCEPT !.weight = 0]],
                  total   |-> 1]
            ELSE IF total < 0
            THEN [name    |-> "unified",
                  weights |-> [k \in 1..Len(weights) |->
                                  [weights[k] EXCEPT !.weight = -weights[k].weight]],
                  total   |-> -total]
            ELSE [name |-> "unified", weights |-> weights, total |-> total]
    IN  IF weights = <<>>
        THEN [name |-> "unified", weights |-> DEFAULT_WEIGHTS, total |-> 100]
        ELSE Normalised(Sum([k \in 1..Len(weights) |-> weights[k].weight]))

\* unified_pct; pct is model_categories.get(cat, {}).get('percentage', default),
\* which is also m_pct over the categories of the M-code report
unified_pct(model_categories, mcode_categories) ==
    LET pct(category_scores, cat) ==
            IF cat \in DOMAIN category_scores THEN category_scores[cat].percentage ELSE 100
    IN
    [cat \in {DEFAULT_WEIGHTS[k].category : k \in 1..Len(DEFAULT_WEIGHTS)} |->
        CASE cat = "Model Design"       -> pct(model_categories, "Design")
          [] cat = "Relationships"      -> pct(model_categories, "Relationships")
          [] cat = "DAX Measures"       -> pct(model_categories, "Measures")
          [] cat = "Documentation"      -> pct(model_categories, "Documentation")
          [] cat = "Naming"             -> pct(model_categories, "Naming")
          [] cat = "M-Code Performance" -> pct(mcode_categories, "Performance")
          [] cat = "Query Folding"      -> pct(mcode_categories, "Query Folding")
          [] cat = "Security"           -> pct(mcode_categories, "Security")]

\* the sum of (pct_value / 100.0) * weight * 100 over self.weights.items(),
\* as the numerator over e.total
weighted_sum(e, percentages) ==
    Sum([k \in 1..Len(e.weights) |->
            e.weights[k].weight
                * (IF e.weights[k].category \in DOMAIN percentages
                   THEN percentages[e.weights[k].category] ELSE 100)])

\* unified_score = max(0, round(unified_score)); `up` is the outcome of the
\* float sum at a value whose fraction is one half
unified_score(e, percentages, up) ==
    LET Round(q, r) == IF 2 * r < e.total THEN q
                       ELSE IF 2 * r > e.total THEN q + 1
                       ELSE IF up THEN q + 1 ELSE q
    IN  Max(0, Round(weighted_sum(e, percentages) \div e.total,
                     weighted_sum(e, percentages) % e.total))

\* mutant: the sum is not rounded but truncated
unified_score_truncated(e, percentages, up) ==
    Max(0, weighted_sum(e, percentages) \div e.total)

\* mutant: the grade bands of the engines
unified_grade_engine(score) ==
    IF score >= 90 THEN "A"
    ELSE IF score >= 80 THEN "B"
    ELSE IF score >= 70 THEN "C"
    ELSE IF score >= 60 THEN "D"
    ELSE "F"

\* the grade of analyze_model
unified_grade(score) ==
    IF score >= 90 THEN "A"
    ELSE IF score >= 75 THEN "B"
    ELSE IF score >= 60 THEN "C"
    ELSE IF score >= 50 THEN "D"
    ELSE "F"

\* combined_issues: the issues of the model report, then those of the M-code
\* report, each with its source
combined_issues(model_issues, mcode_issues) ==
    [k \in 1..Len(model_issues) |->
        [source |-> "Model", category |-> model_issues[k].category,
         severity |-> model_issues[k].severity, title |-> model_issues[k].title,
         impact_score |-> model_issues[k].impact_score]]
    \o [k \in 1..Len(mcode_issues) |->
        [source |-> "M-Code", category |-> mcode_issues[k].category,
         severity |-> mcode_issues[k].severity, title |-> mcode_issues[k].title,
         impact_score |-> mcode_issues[k].impact_score]]

\* the dict that analyze_model returns
unified_report(e, model_report, mcode_report, total_queries, up) ==
    LET Combine(percentages) ==
            [kind            |-> "report",
             score           |-> unified_score(e, percentages, up),
             max_score       |-> 100,
             grade           |-> unified_grade(unified_score(e, percentages, up)),
             statistics      |-> [mcode_queries |-> total_queries],
             category_scores |-> percentages,
             issues          |-> combined_issues(model_report.issues, mcode_report.issues),
             model_report    |-> model_report,
             mcode_report    |-> mcode_report]
    IN  Combine(unified_pct(model_report.category_scores, mcode_report.category_scores))

(***************************************************************************)
(* Analyses by the M-code engine and by the unified analyzer               *)
(* (SpecEntryPoints)                                                       *)
(*                                                                         *)
(* An analyzer is constructed, a definition is built table by table and    *)
(* relationship by relationship, then analysed once.                       *)
(***************************************************************************)
\* a definition as the text of a file, written in one of two ways: a JSON
\* text holds the model either at the top or under the key 'model'
Export(d, way, value) ==
    [x \in DOMAIN d \cup {way} |-> IF x = way THEN value ELSE d[x]]

\* the weights of the callers are none, the ones that give a model with a
\* Security percentage of 0 the score of a grade edge, a negative weight, and
\* a total of zero
InitEntryPoints ==
    /\ fp = FALSE
    /\ engine \in {[name |-> "mcode"]}
                      \cup {UnifiedPowerBIAnalyzer(weights) : weights \in
                               {<<>>}
                               \cup {<< [category |-> "Model Design", weight |-> edge],
                                        [category |-> "Security", weight |-> 100 - edge] >> :
                                        edge \in {49, 50, 59, 60, 74, 75, 79, 80, 89, 90}}
                               \cup {<< [category |-> "Model Design", weight |-> 3],
                                        [category |-> "Security", weight |-> -2] >>,
                                     << [category |-> "Naming", weight |-> 1],
                                        [category |-> "Security", weight |-> -1] >>}}
    /\ issues = IF engine.name = "mcode" THEN <<>>
                ELSE [json_reviewer |-> <<>>, mcode_analyzer |-> <<>>]
    /\ report = NoReport
    /\ \E format \in Formats, nested \in BOOLEAN :
           /\ nested => format = "json"
           /\ input = Export(Definition(format, <<>>, <<>>, <<>>), "nested", nested)
    /\ violations = <<>>

\* EnhancedMCodeAnalyzer.analyze_tmdl_file(filepath), with no file at
\* filepath or with the definition in the file
AnalyzeTmdlFile ==
    /\ report = NoReport
    /\ engine.name = "mcode"
    /\ UNCHANGED <<engine, input, violations>>
    /\ \/ /\ report' = ErrorReport("Failed to analyze file")
          /\ UNCHANGED <<fp, issues>>
       \/ LET Return(queries) ==
                  /\ issues' = analyze_queries(queries, issues)
                  /\ fp' \in (IF queries = <<>> THEN {fp} ELSE FloatOutcomes("mcode", issues'))
                  /\ \E low_score \in SUBSET (IF queries = <<>> THEN {}
                                              ELSE lossy_scores("mcode", issues')),
                        low_percentage \in SUBSET (IF queries = <<>> THEN {}
                                                   ELSE lossy_percentages("mcode", issues')) :
                         report' = IF queries = <<>>
                                   THEN [kind   |-> "error",
                                         error  |-> "No M-code queries found in file",
                                         score  |-> 100,
                                         issues |-> <<>>]
                                   ELSE generate_report(
                                            "mcode",
                                            calculate_score("mcode", issues', fp'),
                                            issues',
                                            calculate_category_scores("mcode", issues',
                                                                      low_score, low_percentage),
                                            queries)
          IN  Return(extract_mcode_queries(input))

\* UnifiedPowerBIAnalyzer.analyze_model(json_path), with no file at
\* json_path or with the definition in the file
AnalyzeModel ==
    /\ report = NoReport
    /\ engine.name = "unified"
    /\ UNCHANGED <<engine, input, violations>>
    /\ \/ /\ report' = ErrorReport("File not found")
          /\ UNCHANGED <<fp, issues>>
       \/ LET Return(run, queries, mcode_issues) ==
                  IF input.format # "json"
                  THEN /\ report' = ErrorReport("Failed to parse JSON")
                       /\ UNCHANGED <<fp, issues>>
                  ELSE IF run.raised
                  THEN /\ report' = ErrorReport("Failed to analyze file")
                       /\ issues' = [issues EXCEPT !.json_reviewer = run.issues]
                       /\ UNCHANGED fp
                  ELSE /\ issues' = [json_reviewer |-> run.issues, mcode_analyzer |-> mcode_issues]
                       /\ \E model_fp \in FloatOutcomes("structural", run.issues),
                             mcode_fp \in FloatOutcomes("mcode", mcode_issues),
                             up \in BOOLEAN,
                             model_low_score \in SUBSET lossy_scores("structural", run.issues),
                             model_low_percentage \in SUBSET lossy_percentages("structural", run.issues),
                             mcode_low_score \in SUBSET lossy_scores("mcode", mcode_issues),
                             mcode_low_percentage \in SUBSET lossy_percentages("mcode", mcode_issues) :
                              /\ fp' = [model |-> model_fp, mcode |-> mcode_fp, unified |-> up]
                              /\ report' = unified_report(
                                     engine,
                                     generate_report("structural",
                                         calculate_score("structural", run.issues, model_fp),
                                         run.issues,
                                         calculate_category_scores("structural", run.issues,
                                             model_low_score, model_low_percentage),
                                         normalize(input)),
                                     generate_report("mcode",
                                         calculate_score("mcode", mcode_issues, mcode_fp),
                                         mcode_issues,
                                         calculate_category_scores("mcode", mcode_issues,
                                             mcode_low_score, mcode_low_percentage),
                                         queries),
                                     Len(queries),
                                     up)
                              /\ \* the other outcome only for a sum whose fraction
                                 \* is one half
                                 2 * (weighted_sum(engine, report'.category_scores)
                                          % engine.total) # engine.total
                                     => ~up
              Analyse(queries) ==
                  Return(collect_issues(input, issues.json_reviewer),
                         queries, analyze_queries(queries, issues.mcode_analyzer))
          IN  Analyse(extract_mcode_from_json(input))

SpecEntryPoints ==
    InitEntryPoints /\ [][AddTable \/ AddRelationship \/ AnalyzeTmdlFile \/ AnalyzeModel]_vars

(***************************************************************************)
(* The BPA rules engine                                                    *)
(*                                                                         *)
(* model_data is the sections structure of a normalizer.  A measure of it  *)
(* carries, as expression_type, the Python type of its expression: the     *)
(* JSON normalizer keeps an expression that the export writes as an array  *)
(* of lines as a list.                                                     *)
(***************************************************************************)
\* d.get(key, default)
Get(d, key, default) == IF key \in DOMAIN d THEN d[key] ELSE default

\* the table_name of a violation that names no table
None == <<"None">>

BPAViolation(rule_id, category, severity, object_type, object_name, table_name) ==
    [rule_id |-> rule_id, category |-> category, severity |-> severity,
     object_type |-> object_type, object_name |-> object_name, table_name |-> table_name]

\* the violations of a rule that looks at each column of each table
ColumnViolations(model_data, Violates(_, _), rule_id, category, severity) ==
    Flatten([t \in 1..Len(model_data.tables) |->
        Flatten([c \in 1..Len(model_data.tables[t].columns) |->
            IF Violates(model_data.tables[t], model_data.tables[t].columns[c])
            THEN << BPAViolation(rule_id, category, severity, "Column",
                                 model_data.tables[t].columns[c].name,
                                 model_data.tables[t].name) >>
            ELSE <<>>])])

\* the violations of a rule that looks at each measure of each table
MeasureViolations(model_data, Violates(_, _), rule_id, category, severity) ==
    Flatten([t \in 1..Len(model_data.tables) |->
        Flatten([m \in 1..Len(model_data.tables[t].measures) |->
            IF Violates(model_data.tables[t], model_data.tables[t].measures[m])
            THEN << BPAViolation(rule_id, category, severity, "Measure",
                                 model_data.tables[t].measures[m].name,
                                 model_data.tables[t].name) >>
            ELSE <<>>])])

\* the violations of a rule that looks at each table
TableViolations(model_data, Violates(_), rule_id, category, severity) ==
    Flatten([t \in 1..Len(model_data.tables) |->
        IF Violates(model_data.tables[t])
        THEN << BPAViolation(rule_id, category, severity, "Table",
                             model_data.tables[t].name, None) >>
        ELSE <<>>])

check_floating_point_types(model_data) ==
    ColumnViolations(model_data,
        LAMBDA table, column :
            lower(Get(column, "data_type", <<>>)) \in { <<"d", "o", "u", "b", "l", "e">>, <<"f", "l", "o", "a", "t">>, <<"r", "e", "a", "l">> },
        "AVOID_FLOATING_POINT_DATA_TYPES", "Performance", 2)

check_auto_date_tables(model_data) ==
    TableViolations(model_data,
        LAMBDA table : \/ StartsAt(table.name, 1, <<"D", "a", "t", "e", "T", "a", "b", "l", "e", "T", "e", "m", "p", "l", "a", "t", "e", "_">>)
                       \/ StartsAt(table.name, 1, <<"L", "o", "c", "a", "l", "D", "a", "t", "e", "T", "a", "b", "l", "e", "_">>),
        "REMOVE_AUTO-DATE_TABLE", "Performance", 2)

check_date_table_exists(model_data) ==
    IF /\ ~\E t \in 1..Len(model_data.tables) :
              \/ Get(model_data.tables[t], "data_category", None) = <<"T", "i", "m", "e">>
              \/ lower(model_data.tables[t].name)
                     \in { <<"d", "a", "t", "e">>, <<"c", "a", "l", "e", "n", "d", "a", "r">>, <<"d", "i", "m", "_", "d", "a", "t", "e">>, <<"d", "i", "m", "d", "a", "t", "e">>, <<"d", "a", "t", "e", "s">> }
       /\ Len(model_data.tables) > 2
    THEN << BPAViolation("MODEL_SHOULD_HAVE_A_DATE_TABLE", "Performance", 2,
                         "Model", <<"M", "o", "d", "e", "l">>, None) >>
    ELSE <<>>

check_date_table_marked(model_data) ==
    TableViolations(model_data,
        LAMBDA table :
            /\ contains_any({ <<"d", "a", "t", "e">>, <<"c", "a", "l", "e", "n", "d", "a", "r">> }, lower(table.name))
            /\ ~StartsAt(lower(table.name), 1, <<"d", "a", "t", "e", "t", "a", "b", "l", "e", "t", "e", "m", "p", "l", "a", "t", "e", "_">>)
            /\ ~StartsAt(lower(table.name), 1, <<"l", "o", "c", "a", "l", "d", "a", "t", "e", "t", "a", "b", "l", "e", "_">>)
            /\ Get(table, "data_category", None) # <<"T", "i", "m", "e">>,
        "DATE/CALENDAR_TABLES_SHOULD_BE_MARKED_AS_A_DATE_TABLE", "Performance", 2)

\* mutant: a share of exactly 30% is reported too
check_excessive_bidi_inclusive(model_data) ==
    IF /\ model_data.relationships # <<>>
       /\ 10 * (Len(SelectSeq(model_data.relationships,
                              LAMBDA r : r.cross_filter_direction = "both"))
                + Len(SelectSeq(model_data.relationships,
                                LAMBDA r : r.cardinality = "many-to-many")))
              >= 3 * Len(model_data.relationships)
    THEN << BPAViolation("AVOID_EXCESSIVE_BI-DIRECTIONAL_OR_MANY-TO-MANY_RELATIONSHIPS",
                         "Performance", 2, "Model", <<"M", "o", "d", "e", "l">>, None) >>
    ELSE <<>>

\* problematic is bidi_count + m2m_count; (problematic / total) > 0.3
check_excessive_bidi(model_data) ==
    IF /\ model_data.relationships # <<>>
       /\ 10 * (Len(SelectSeq(model_data.relationships,
                              LAMBDA r : r.cross_filter_direction = "both"))
                + Len(SelectSeq(model_data.relationships,
                                LAMBDA r : r.cardinality = "many-to-many")))
              > 3 * Len(model_data.relationships)
    THEN << BPAViolation("AVOID_EXCESSIVE_BI-DIRECTIONAL_OR_MANY-TO-MANY_RELATIONSHIPS",
                         "Performance", 2, "Model", <<"M", "o", "d", "e", "l">>, None) >>
    ELSE <<>>

check_calculated_column_count(model_data) ==
    IF Sum([t \in 1..Len(model_data.tables) |->
               Len(Get(model_data.tables[t], "calculated_columns", <<>>))]) > 5
    THEN << BPAViolation("REDUCE_NUMBER_OF_CALCULATED_COLUMNS", "Performance", 2,
                         "Model", <<"M", "o", "d", "e", "l">>, None) >>
    ELSE <<>>

\* mutant: the tables on either side of a relationship
snowflake_tables_either(model_data) ==
    {table_name \in {model_data.relationships[r].from_table :
                         r \in 1..Len(model_data.relationships)}
                    \cup {model_data.relationships[r].to_table :
                              r \in 1..Len(model_data.relationships)} :
        ~contains(<<"f", "a", "c", "t">>, lower(table_name))}

\* tables_as_from & tables_as_to without the tables with 'fact' in their name
snowflake_tables(model_data) ==
    {table_name \in {model_data.relationships[r].from_table :
                         r \in 1..Len(model_data.relationships)}
                    \cap {model_data.relationships[r].to_table :
                              r \in 1..Len(model_data.relationships)} :
        ~contains(<<"f", "a", "c", "t">>, lower(table_name))}

\* the orders in which a set of strings can be iterated
Orders(S) ==
    {order \in [1..Cardinality(S) -> S] :
        \A i, j \in 1..Cardinality(S) : i # j => order[i] # order[j]}

\* `order` is the order in which the set snowflake_tables is iterated
check_snowflake_schema(model_data, order) ==
    [k \in 1..Len(order) |->
        BPAViolation("SNOWFLAKE_SCHEMA_ARCHITECTURE", "Performance", 2,
                     "Table", order[k], None)]

check_foreign_keys_hidden(model_data) ==
    ColumnViolations(model_data,
        LAMBDA table, column :
            /\ \E r \in 1..Len(model_data.relationships) :
                   /\ model_data.relationships[r].from_table = table.name
                   /\ model_data.relationships[r].from_column = column.name
            /\ ~Get(column, "is_hidden", FALSE),
        "HIDE_FOREIGN_KEYS", "Maintenance", 2)

\* mutant: the expressions are compared as they are written
check_duplicate_measures_exact(model_data) ==
    LET Duplicates(measures) ==
            Flatten([k \in 1..Len(measures) |->
                IF \E j \in 1..(k - 1) : measures[j].expression = measures[k].expression
                THEN << BPAViolation("AVOID_DUPLICATE_MEASURES", "DAX Expressions", 2,
                                     "Measure", measures[k].name, measures[k].table)
                        @@ [same_as |-> measures[
                               CHOOSE j \in 1..(k - 1) :
                                   /\ measures[j].expression = measures[k].expression
                                   /\ \A i \in 1..(j - 1) :
                                          measures[i].expression # measures[k].expression].name] >>
                ELSE <<>>])
    IN  Duplicates(Flatten([t \in 1..Len(model_data.tables) |->
            [m \in 1..Len(model_data.tables[t].measures) |->
                [name       |-> model_data.tables[t].measures[m].name,
                 table      |-> model_data.tables[t].name,
                 expression |-> model_data.tables[t].measures[m].expression]]]))

\* a measure is reported when an earlier measure of the model has the same
\* normalized expression, re.sub(r'\s+', '', expr); same_as is the measure
\* that the description names, seen[m['normalized']]: the first measure
\* with that normalized expression
check_duplicate_measures(model_data) ==
    LET normalized(expr) == SelectSeq(expr, LAMBDA c : c \notin Whitespace)
        Duplicates(measures) ==
            Flatten([k \in 1..Len(measures) |->
                IF \E j \in 1..(k - 1) :
                       normalized(measures[j].expression) = normalized(measures[k].expression)
                THEN << BPAViolation("AVOID_DUPLICATE_MEASURES", "DAX Expressions", 2,
                                     "Measure", measures[k].name, measures[k].table)
                        @@ [same_as |-> measures[
                               CHOOSE j \in 1..(k - 1) :
                                   /\ normalized(measures[j].expression)
                                          = normalized(measures[k].expression)
                                   /\ \A i \in 1..(j - 1) :
                                          normalized(measures[i].expression)
                                              # normalized(measures[k].expression)].name] >>
                ELSE <<>>])
    IN  Duplicates(Flatten([t \in 1..Len(model_data.tables) |->
            [m \in 1..Len(model_data.tables[t].measures) |->
                [name       |-> model_data.tables[t].measures[m].name,
                 table      |-> model_data.tables[t].name,
                 expression |-> model_data.tables[t].measures[m].expression]]]))

check_measure_format_strings(model_data) ==
    MeasureViolations(model_data,
        LAMBDA table, measure : Get(measure, "format_string", <<>>) = <<>>,
        "PROVIDE_FORMAT_STRING_FOR_MEASURES", "Formatting", 1)

\* a column whose name holds a key of category_hints
check_column_data_categories(model_data) ==
    ColumnViolations(model_data,
        LAMBDA table, column :
            /\ contains_any(
                   { <<"u", "r", "l">>, <<"l", "i", "n", "k">>, <<"w", "e", "b", "s", "i", "t", "e">>, <<"i", "m", "a", "g", "e">>, <<"p", "h", "o", "t", "o">>, <<"c", "i", "t", "y">>,
                     <<"c", "o", "u", "n", "t", "r", "y">>, <<"s", "t", "a", "t", "e">>, <<"p", "o", "s", "t", "a", "l">>, <<"z", "i", "p">>, <<"l", "a", "t", "i", "t", "u", "d", "e">>,
                     <<"l", "o", "n", "g", "i", "t", "u", "d", "e">>, <<"a", "d", "d", "r", "e", "s", "s">> },
                   lower(column.name))
            /\ Get(column, "data_category", <<>>) = <<>>,
        "ADD_DATA_CATEGORY_FOR_COLUMNS", "Formatting", 1)

\* name != name.strip(), for each table: the table, then its columns, then
\* its measures
check_object_names_spaces(model_data) ==
    LET Rule(object_type, object_name, table_name) ==
            IF object_name # strip(object_name, Whitespace)
            THEN << BPAViolation("OBJECTS_SHOULD_NOT_START_OR_END_WITH_A_SPACE",
                                 "Maintenance", 2, object_type, object_name, table_name) >>
            ELSE <<>>
        OfTable(table) ==
            Rule("Table", table.name, None)
            \o Flatten([c \in 1..Len(table.columns) |->
                           Rule("Column", table.columns[c].name, table.name)])
            \o Flatten([m \in 1..Len(table.measures) |->
                           Rule("Measure", table.measures[m].name, table.name)])
    IN  Flatten([t \in 1..Len(model_data.tables) |-> OfTable(model_data.tables[t])])

check_percentage_formatting(model_data) ==
    MeasureViolations(model_data,
        LAMBDA table, measure :
            /\ contains_any({ <<"p", "e", "r", "c", "e", "n", "t">>, <<"p", "c", "t">>, <<"%">>, <<"r", "a", "t", "e">>, <<"r", "a", "t", "i", "o">>, <<"m", "a", "r", "g", "i", "n">> },
                            lower(measure.name))
            /\ ~contains(<<"%">>, Get(measure, "format_string", <<>>))
            /\ ~contains(<<"p", "e", "r", "c", "e", "n", "t">>, lower(Get(measure, "format_string", <<>>))),
        "PERCENTAGE_FORMATTING", "Formatting", 1)

check_summarize_by_none(model_data) ==
    ColumnViolations(model_data,
        LAMBDA table, column :
            /\ lower(Get(column, "data_type", <<>>))
                   \in { <<"i", "n", "t", "6", "4">>, <<"i", "n", "t", "e", "g", "e", "r">>, <<"d", "e", "c", "i", "m", "a", "l">>, <<"d", "o", "u", "b", "l", "e">>, <<"c", "u", "r", "r", "e", "n", "c", "y">> }
            /\ contains_any({ <<"i", "d">>, <<"k", "e", "y">>, <<"c", "o", "d", "e">>, <<"n", "u", "m", "b", "e", "r">>, <<"y", "e", "a", "r">>, <<"m", "o", "n", "t", "h">>,
                              <<"d", "a", "y">>, <<"q", "u", "a", "r", "t", "e", "r">> }, lower(column.name))
            /\ Get(column, "summarize_by", None) \notin {None, <<"N", "o", "n", "e">>, <<"n", "o", "n", "e">>},
        "DO_NOT_SUMMARIZE_NUMERIC_COLUMNS", "Formatting", 1)

check_relationship_column_types(model_data) ==
    ColumnViolations(model_data,
        LAMBDA table, column :
            /\ \E r \in 1..Len(model_data.relationships) :
                   \/ /\ model_data.relationships[r].from_table = table.name
                      /\ model_data.relationships[r].from_column = column.name
                   \/ /\ model_data.relationships[r].to_table = table.name
                      /\ model_data.relationships[r].to_column = column.name
            /\ lower(Get(column, "data_type", <<>>))
                   \notin { <<"i", "n", "t", "6", "4">>, <<"i", "n", "t", "e", "g", "e", "r">>, <<"i", "n", "t">>, <<"w", "h", "o", "l", "e", " ", "n", "u", "m", "b", "e", "r">> },
        "RELATIONSHIP_COLUMNS_SHOULD_BE_OF_INTEGER_DATA_TYPE", "Performance", 2)

check_measure_descriptions(model_data) ==
    MeasureViolations(model_data,
        LAMBDA table, measure : Get(measure, "description", <<>>) = <<>>,
        "PROVIDE_DESCRIPTION_FOR_MEASURES", "Maintenance", 1)

check_column_descriptions(model_data) ==
    ColumnViolations(model_data,
        LAMBDA table, column : /\ ~Get(column, "is_hidden", FALSE)
                               /\ Get(column, "description", <<>>) = <<>>,
        "PROVIDE_DESCRIPTION_FOR_COLUMNS", "Maintenance", 1)

check_table_descriptions(model_data) ==
    TableViolations(model_data,
        LAMBDA table : /\ ~Get(table, "is_hidden", FALSE)
                       /\ Get(table, "description", <<>>) = <<>>,
        "PROVIDE_DESCRIPTION_FOR_TABLES", "Maintenance", 1)

\* mutant: the rule reports the to-table of each relationship without
\* looking it up in the tables
check_primary_keys_marked_unresolved(model_data) ==
    [r \in 1..Len(model_data.relationships) |->
        BPAViolation("MARK_PRIMARY_KEYS", "Maintenance", 1, "Table",
                     model_data.relationships[r].to_table, None)]

check_primary_keys_marked(model_data) ==
    TableViolations(model_data,
        LAMBDA table :
            /\ \E r \in 1..Len(model_data.relationships) :
                   model_data.relationships[r].to_table = table.name
            /\ ~\E c \in 1..Len(table.columns) : Get(table.columns[c], "is_key", FALSE),
        "MARK_PRIMARY_KEYS", "Maintenance", 1)

check_fact_table_columns_hidden(model_data) ==
    TableViolations(model_data,
        LAMBDA table :
            /\ \/ \E r \in 1..Len(model_data.relationships) :
                      model_data.relationships[r].from_table = table.name
               \/ contains(<<"f", "a", "c", "t">>, lower(table.name))
            /\ Len(SelectSeq(table.columns, LAMBDA col : ~Get(col, "is_hidden", FALSE))) > 5,
        "HIDE_FACT_TABLE_COLUMNS", "Maintenance", 1)

\* name and name[0].islower(), for each table: the table, then its measures
check_object_capitalization(model_data) ==
    LET Rule(object_type, object_name, table_name) ==
            IF object_name # <<>> /\ object_name[1] \in DOMAIN ToUpper
            THEN << BPAViolation("FIRST_LETTER_OF_OBJECTS_SHOULD_BE_CAPITALIZED",
                                 "Formatting", 1, object_type, object_name, table_name) >>
            ELSE <<>>
        OfTable(table) ==
            Rule("Table", table.name, None)
            \o Flatten([m \in 1..Len(table.measures) |->
                           Rule("Measure", table.measures[m].name, table.name)])
    IN  Flatten([t \in 1..Len(model_data.tables) |-> OfTable(model_data.tables[t])])

\* the keys of self.rule_implementations, in registration order
rule_implementations ==
    << "AVOID_FLOATING_POINT_DATA_TYPES",
       "REMOVE_AUTO-DATE_TABLE",
       "MODEL_SHOULD_HAVE_A_DATE_TABLE",
       "DATE/CALENDAR_TABLES_SHOULD_BE_MARKED_AS_A_DATE_TABLE",
       "AVOID_EXCESSIVE_BI-DIRECTIONAL_OR_MANY-TO-MANY_RELATIONSHIPS",
       "REDUCE_NUMBER_OF_CALCULATED_COLUMNS",
       "SNOWFLAKE_SCHEMA_ARCHITECTURE",
       "HIDE_FOREIGN_KEYS",
       "AVOID_DUPLICATE_MEASURES",
       "PROVIDE_FORMAT_STRING_FOR_MEASURES",
       "ADD_DATA_CATEGORY_FOR_COLUMNS",
       "OBJECTS_SHOULD_NOT_START_OR_END_WITH_A_SPACE",
       "PERCENTAGE_FORMATTING",
       "DO_NOT_SUMMARIZE_NUMERIC_COLUMNS",
       "RELATIONSHIP_COLUMNS_SHOULD_BE_OF_INTEGER_DATA_TYPE",
       "PROVIDE_DESCRIPTION_FOR_MEASURES",
       "PROVIDE_DESCRIPTION_FOR_COLUMNS",
       "PROVIDE_DESCRIPTION_FOR_TABLES",
       "MARK_PRIMARY_KEYS",
       "HIDE_FACT_TABLE_COLUMNS",
       "FIRST_LETTER_OF_OBJECTS_SHOULD_BE_CAPITALIZED" >>

\* check_func(model_data) of the k-th registered rule: whether it raises,
\* and what it returns if it does not.  In _check_duplicate_measures re.sub
\* raises TypeError on an expression that is a list
check_func(k, model_data, order) ==
    [raised     |-> /\ k = 9
                    /\ \E t \in 1..Len(model_data.tables) :
                           \E m \in 1..Len(model_data.tables[t].measures) :
                               model_data.tables[t].measures[m].expression_type = "list",
     violations |->
        CASE k = 1  -> check_floating_point_types(model_data)
          [] k = 2  -> check_auto_date_tables(model_data)
          [] k = 3  -> check_date_table_exists(model_data)
          [] k = 4  -> check_date_table_marked(model_data)
          [] k = 5  -> check_excessive_bidi(model_data)
          [] k = 6  -> check_calculated_column_count(model_data)
          [] k = 7  -> check_snowflake_schema(model_data, order)
          [] k = 8  -> check_foreign_keys_hidden(model_data)
          [] k = 9  -> check_duplicate_measures(model_data)
          [] k = 10 -> check_measure_format_strings(model_data)
          [] k = 11 -> check_column_data_categories(model_data)
          [] k = 12 -> check_object_names_spaces(model_data)
          [] k = 13 -> check_percentage_formatting(model_data)
          [] k = 14 -> check_summarize_by_none(model_data)
          [] k = 15 -> check_relationship_column_types(model_data)
          [] k = 16 -> check_measure_descriptions(model_data)
          [] k = 17 -> check_column_descriptions(model_data)
          [] k = 18 -> check_table_descriptions(model_data)
          [] k = 19 -> check_primary_keys_marked(model_data)
          [] k = 20 -> check_fact_table_columns_hidden(model_data)
          [] k = 21 -> check_object_capitalization(model_data)]

\* mutant: the loop ends at the first rule that raises
analyze_model_stops(model_data, order, prior) ==
    reset_issues(prior) \o Flatten([k \in 1..Len(rule_implementations) |->
        IF \E j \in 1..k : check_func(j, model_data, order).raised THEN <<>>
        ELSE check_func(k, model_data, order).violations])

\* mutant: a rule does not report an object that an earlier rule has reported
analyze_model_shared(model_data, order, prior) ==
    LET all == Flatten([k \in 1..Len(rule_implementations) |->
                   IF check_func(k, model_data, order).raised THEN <<>>
                   ELSE check_func(k, model_data, order).violations])
        RECURSIVE Kept(_)
        Kept(k) ==
            IF k > Len(all) THEN <<>>
            ELSE (IF \E j \in 1..(k - 1) : /\ all[j].object_name = all[k].object_name
                                            /\ all[j].rule_id # all[k].rule_id
                  THEN <<>> ELSE <<all[k]>>) \o Kept(k + 1)
    IN  reset_issues(prior) \o Kept(1)

\* self.violations after analyze_model: the list is reset, then every rule
\* extends it; a rule that raises extends it by nothing
analyze_model(model_data, order, prior) ==
    reset_issues(prior) \o Flatten([k \in 1..Len(rule_implementations) |->
        IF check_func(k, model_data, order).raised THEN <<>>
        ELSE check_func(k, model_data, order).violations])

(***************************************************************************)
(* Analyses by the BPA rules engine (SpecBPA)                              *)
(*                                                                         *)
(* A definition is built table by table and relationship by relationship,  *)
(* normalized, and the model is analysed once.                             *)
(***************************************************************************)
\* the sections of the definition, as the dict the engine is given; a
\* JSON text may hold the expression of each measure as an array of lines
ModelData(d) ==
    LET Typed(measure) ==
            [x \in DOMAIN measure \cup {"expression_type"} |->
                IF x = "expression_type"
                THEN (IF d.lines /\ measure.expression # <<>> THEN "list" ELSE "str")
                ELSE measure[x]]
        TypedTables(sections) ==
            [sections EXCEPT !.tables =
                [t \in 1..Len(sections.tables) |->
                    [sections.tables[t] EXCEPT !.measures =
                        [m \in 1..Len(sections.tables[t].measures) |->
                            Typed(sections.tables[t].measures[m])]]]]
    IN  TypedTables(normalize(d))

InitBPA ==
    /\ fp = FALSE
    /\ engine = [name |-> "bpa"]
    /\ issues = <<>>
    /\ report = NoReport
    /\ \E format \in Formats, lines \in BOOLEAN :
           /\ lines => format = "json"
           /\ input = Export(Definition(format, <<>>, <<>>, <<>>), "lines", lines)
    /\ violations = <<>>

\* the definition gets one more relationship, also one of those whose
\* endpoints the rules on relationship columns tell apart: from Store, to
\* Store, from the table Ghost, which no definition has, and to the fact table
BPAAddRelationship ==
    /\ report = NoReport
    /\ Len(input.relationships) < MaxRelationships
    /\ \E relationships \in Extensions(
               RelationshipLibrary
               \o << Relationship(<<"S", "t", "o", "r", "e">>, <<"C", "u", "s", "t", "o", "m", "e", "r">>, "manyToOne", FALSE),
                     Relationship(<<"C", "u", "s", "t", "o", "m", "e", "r">>, <<"S", "t", "o", "r", "e">>, "manyToOne", FALSE),
                     Relationship(<<"G", "h", "o", "s", "t">>, <<"S", "t", "o", "r", "e">>, "manyToOne", FALSE),
                     Relationship(<<"C", "u", "s", "t", "o", "m", "e", "r">>, <<"F", "a", "c", "t", "S", "a", "l", "e", "s">>, "manyToOne", FALSE) >>,
               input.relationships) :
           input' = [input EXCEPT !.relationships = relationships]
    /\ UNCHANGED <<fp, engine, issues, report, violations>>

\* BPARulesEngine.analyze_model(model_data) on the sections of the definition
BPAAnalyzeModel ==
    /\ report = NoReport
    /\ engine.name = "bpa"
    /\ LET Run(model_data) ==
               \E order \in Orders(snowflake_tables(model_data)) :
                   /\ violations' = analyze_model(model_data, order, violations)
                   /\ report' = [kind |-> "violations", violations |-> violations']
       IN  Run(ModelData(input))
    /\ UNCHANGED <<fp, engine, issues, input>>

SpecBPA == InitBPA /\ [][AddTable \/ BPAAddRelationship \/ BPAAnalyzeModel]_vars

(***************************************************************************)
(* The folding check on the steps of a query (SpecFolding)                 *)
(*                                                                         *)
(* The steps are as _parse_query_steps numbers them; the first step is any *)
(* expression of the family, the later ones are not sources.               *)
(***************************************************************************)
\* most steps of a query
MaxSteps == 5

InitFolding ==
    /\ fp = FALSE
    /\ engine = [name |-> "mcode"]
    /\ issues = <<>>
    /\ report = NoReport
    /\ violations = <<>>
    /\ LET later == << <<"T", "a", "b", "l", "e", ".", "R", "e", "n", "a", "m", "e", "C", "o", "l", "u", "m", "n", "s", "(", "P", ",", " ", "\"", "a", "\"", ")">>,
                       <<"T", "a", "b", "l", "e", ".", "A", "d", "d", "C", "o", "l", "u", "m", "n", "(", "P", ",", " ", "\"", "c", "\"", ",", " ", "e", "a", "c", "h", " ", "1", ")">>,
                       <<"T", "a", "b", "l", "e", ".", "S", "e", "l", "e", "c", "t", "R", "o", "w", "s", "(", "P", ",", " ", "e", "a", "c", "h", " ", "[", "a", "]", " ", ">", " ", "1", ")">>,
                       <<"T", "a", "b", "l", "e", ".", "S", "e", "l", "e", "c", "t", "R", "o", "w", "s", "(", "P", ",", " ", "e", "a", "c", "h", " ", "T", "e", "x", "t", ".", "L", "e", "n", "g", "t", "h", "(", "[", "a", "]", ")", " ", ">", " ", "1", ")">> >>
           first == << <<"S", "q", "l", ".", "D", "a", "t", "a", "b", "a", "s", "e", "(", "\"", "s", "\"", ",", " ", "\"", "d", "\"", ")">>,
                       <<"O", "D", "a", "t", "a", ".", "F", "e", "e", "d", "(", "\"", "u", "\"", ")">>,
                       <<"S", "h", "a", "r", "e", "P", "o", "i", "n", "t", ".", "F", "i", "l", "e", "s", "(", "\"", "u", "\"", ")">>,
                       <<"C", "s", "v", ".", "D", "o", "c", "u", "m", "e", "n", "t", "(", "F", "i", "l", "e", ".", "C", "o", "n", "t", "e", "n", "t", "s", "(", "\"", "f", "\"", ")", ")">>,
                       <<"T", "a", "b", "l", "e", ".", "C", "o", "m", "b", "i", "n", "e", "(", "S", "q", "l", ".", "D", "a", "t", "a", "b", "a", "s", "e", "(", "\"", "s", "\"", ",", " ", "\"", "d", "\"", ")", ",", " ", "T", ")">> >> \o later
           Step(i, expression) ==
               [name           |-> <<"S", ToString(i)>>,
                expression     |-> expression,
                line_number    |-> i,
                breaks_folding |-> check_breaks_folding(expression)]
       IN  \E n \in 0..MaxSteps :
               \E f \in 1..Len(first), rest \in [2..n -> 1..Len(later)] :
                   input = [kind       |-> "query",
                            query_name |-> <<"q">>,
                            steps      |-> [i \in 1..n |->
                                               IF i = 1 THEN Step(1, first[f])
                                               ELSE Step(i, later[rest[i]])]]

\* EnhancedMCodeAnalyzer._check_query_folding(query_name, steps)
CheckQueryFolding ==
    /\ report = NoReport
    /\ issues' = issues \o check_query_folding(input.query_name, input.steps)
    /\ report' = [kind |-> "checked"]
    /\ UNCHANGED <<fp, engine, input, violations>>

SpecFolding == InitFolding /\ [][CheckQueryFolding]_vars

(***************************************************************************)
(* One analyzer instance used for one file after another (SpecReuse)       *)
(*                                                                         *)
(* An analyzer is constructed and handed files one at a time; every file   *)
(* is analysed with the lists that the analysis before it left behind.     *)
(***************************************************************************)
InitReuse ==
    /\ fp = FALSE
    /\ engine \in {[name |-> "mcode"], UnifiedPowerBIAnalyzer(<<>>), [name |-> "bpa"]}
    /\ issues = IF engine.name = "unified"
                THEN [json_reviewer |-> <<>>, mcode_analyzer |-> <<>>]
                ELSE <<>>
    /\ report = [kind |-> "constructed"]
    /\ input = NoInput
    /\ violations = <<>>

\* the caller turns to the next file: a definition of at most one table, in
\* one of the ways a file is written; `earlier` remembers the file before
NextFile ==
    /\ report # NoReport
    /\ \E format \in Formats, nested \in BOOLEAN, lines \in BOOLEAN,
          tables \in {<<>>} \cup {<<TableLibrary[t]>> : t \in 1..Len(TableLibrary)},
          relationships \in {<<>>, <<RelationshipLibrary[1]>>} :
           /\ (nested \/ lines) => format = "json"
           /\ ~(nested /\ lines)
           /\ input' = Export(
                  Export(Export(Definition(format, tables, relationships, <<>>),
                                "nested", nested),
                         "lines", lines),
                  "earlier",
                  IF input = NoInput THEN NoInput
                  ELSE Definition(input.format, input.tables, input.relationships,
                                  input.roles))
    /\ report' = NoReport
    /\ UNCHANGED <<fp, engine, issues, violations>>

SpecReuse ==
    InitReuse /\ [][NextFile \/ AnalyzeTmdlFile \/ AnalyzeModel \/ BPAAnalyzeModel]_vars

(***************************************************************************)
(* Scoring a list of issues and the same list changed (SpecOrder)          *)
(*                                                                         *)
(* A list of issues is scored; then two of its issues change places, or    *)
(* one more issue is appended, and the list is scored again.  The list is  *)
(* a prefix of six issues of two categories whose penalties add up to      *)
(* exactly 3 points.                                                       *)
(***************************************************************************)
InitOrder ==
    /\ fp = FALSE
    /\ engine \in Engines
    /\ report = NoReport
    /\ input = NoInput
    /\ violations = <<>>
    /\ LET heavy == IF engine = "structural" THEN "Measures" ELSE "Error Handling"
           six == << Issue(heavy, "Low", 7, "free"),
                     Issue("Best Practices", "Low", 6, "free"),
                     Issue(heavy, "Low", 1, "free"),
                     Issue(heavy, "Medium", 2, "free"),
                     Issue(heavy, "Critical", 3, "free"),
                     Issue(heavy, "Critical", 7, "free") >>
       IN  \E n \in 0..Len(six) : issues = SubSeq(six, 1, n)

\* self.issues is changed and _calculate_score and _generate_report run
\* again.  The floats of the second run are those of the first when every
\* category adds up the same non-zero penalties in the same order (adding
\* 0.0 changes nothing); otherwise the truncation may come out either way.
ScoreAgain ==
    /\ report.kind = "report"
    /\ input = NoInput
    /\ LET Summands(iss, c) ==
               SelectSeq(iss, LAMBDA issue : issue.category = c /\ IssuePenalty(issue) # 0)
           Score(again) ==
               /\ issues' = again
               /\ fp' \in (IF \A c \in CategorySet(engine) :
                                  [k \in 1..Len(Summands(again, c)) |->
                                      IssuePenalty(Summands(again, c)[k])]
                                  = [k \in 1..Len(Summands(issues, c)) |->
                                        IssuePenalty(Summands(issues, c)[k])]
                           THEN {fp} ELSE BOOLEAN)
               /\ \E low_score \in SUBSET lossy_scores(engine, again),
                     low_percentage \in SUBSET lossy_percentages(engine, again) :
                      report' = generate_report(
                                    engine, calculate_score(engine, again, fp'), again,
                                    calculate_category_scores(engine, again,
                                                              low_score, low_percentage),
                                    IF engine = "structural"
                                    THEN [tables |-> <<>>, relationships |-> <<>>,
                                          measures |-> <<>>, calculated_columns |-> <<>>,
                                          hierarchies |-> <<>>, roles |-> <<>>]
                                    ELSE <<>>)
       IN  \/ \E i \in 1..Len(issues), j \in 1..Len(issues) :
                 /\ i < j
                 /\ Score([issues EXCEPT ![i] = issues[j], ![j] = issues[i]])
           \/ \E c \in {Categories(engine)[4], "Best Practices"},
                 s \in IssueSeverity, i \in {0, 1, MaxImpact} :
                 Score(Append(issues, Issue(c, s, i, "free")))
    /\ input' = [kind |-> "scored", issues |-> issues, score |-> report.score]
    /\ UNCHANGED <<engine, violations>>

SpecOrder == InitOrder /\ [][ScoreAndReport \/ ScoreAgain]_vars

(***************************************************************************)
(* The rules engine on models of many relationships (SpecMany)             *)
(*                                                                         *)
(* A textual export without tables holds up to MaxMany relationships: some *)
(* plain, some bi-directional, some many-to-many, some both.               *)
(***************************************************************************)
\* most relationships of such an export
MaxMany == 10

InitMany ==
    /\ fp = FALSE
    /\ engine = [name |-> "bpa"]
    /\ issues = <<>>
    /\ report = NoReport
    /\ violations = <<>>
    /\ \E plain \in 0..MaxMany, bidi \in 0..MaxMany, m2m \in 0..MaxMany, both \in 0..MaxMany :
           /\ plain + bidi + m2m + both <= MaxMany
           /\ input = Export(
                  Definition(
                      "tmdl", <<>>,
                      [k \in 1..plain |->
                          Relationship(<<"F", "a", "c", "t", "S", "a", "l", "e", "s">>, <<"C", "u", "s", "t", "o", "m", "e", "r">>, "manyToOne", FALSE)]
                      \o [k \in 1..bidi |->
                             Relationship(<<"F", "a", "c", "t", "S", "a", "l", "e", "s">>, <<"C", "u", "s", "t", "o", "m", "e", "r">>, "manyToOne", TRUE)]
                      \o [k \in 1..m2m |->
                             Relationship(<<"F", "a", "c", "t", "S", "a", "l", "e", "s">>, <<"C", "u", "s", "t", "o", "m", "e", "r">>, "manyToMany", FALSE)]
                      \o [k \in 1..both |->
                             Relationship(<<"F", "a", "c", "t", "S", "a", "l", "e", "s">>, <<"C", "u", "s", "t", "o", "m", "e", "r">>, "manyToMany", TRUE)],
                      <<>>),
                  "lines", FALSE)

SpecMany == InitMany /\ [][BPAAnalyzeModel]_vars

(***************************************************************************)
(* The structural engine on families of tables (SpecFamily)                *)
(*                                                                         *)
(* An export holds up to MaxFamily tables: Customer, the yearly table      *)
(* Budget2021 and the quarterly table 'Budget Q3', each any number of      *)
(* times, in this order.                                                   *)
(***************************************************************************)
\* most tables of such an export
MaxFamily == 5

InitFamily ==
    /\ fp = FALSE
    /\ engine = "structural"
    /\ issues = <<>>
    /\ report = NoReport
    /\ violations = <<>>
    /\ \E format \in Formats, others \in 0..MaxFamily, yearly \in 0..MaxFamily,
          quarterly \in 0..MaxFamily :
           /\ others + yearly + quarterly <= MaxFamily
           /\ input = Definition(format,
                                 [k \in 1..others |-> TableLibrary[1]]
                                 \o [k \in 1..yearly |-> TableLibrary[4]]
                                 \o [k \in 1..quarterly |-> TableLibrary[5]],
                                 <<>>, <<>>)

SpecFamily == InitFamily /\ [][AnalyzeExport]_vars

(***************************************************************************)
(* Claims about the baseline violations                                    *)
(***************************************************************************)
\* an analysis of a definition has returned a report with a score
Analysed == input.kind = "definition" /\ report.kind = "report"

RECURSIVE ClaimMeasuresFrom(_, _)
ClaimMeasuresFrom(tables, k) ==
    IF k > Len(tables) THEN 0
    ELSE Len(tables[k].measures) + ClaimMeasuresFrom(tables, k + 1)

\* the measures of the analysed model
ClaimMeasures == ClaimMeasuresFrom(input.tables, 1)

ClaimBaseline ==
    << [category |-> "Model Design", severity |-> "High", impact_score |-> 6,
        title |-> "No Relationships Defined"],
       [category |-> "Best Practices", severity |-> "Medium", impact_score |-> 4,
        title |-> "No Measures Present"],
       [category |-> "Model Design", severity |-> "Medium", impact_score |-> 3,
        title |-> "Single-Table Model"] >>

ClaimIsBaseline(issue) == \E k \in 1..Len(ClaimBaseline) : ClaimBaseline[k].title = issue.title

\* one table, no measure, no relationship
ClaimMinimal ==
    /\ Analysed
    /\ Len(input.tables) = 1
    /\ ClaimMeasures = 0
    /\ Len(input.relationships) = 0

\* C5 as stated: a model with one table, no measures and no relationships gets
\* exactly the three baseline violations, and they come before every other
\* violation of the report.
C5_Original_BaselineFirst ==
    ClaimMinimal =>
        /\ Len(report.issues) >= 3
        /\ SubSeq(report.issues, 1, 3) = ClaimBaseline
        /\ \A k \in 4..Len(report.issues) : ~ClaimIsBaseline(report.issues[k])

\* C5: a model with one table, no measures and no relationships gets exactly
\* the three baseline violations (No Relationships Defined with impact 6, No
\* Measures Present with impact 4, Single-Table Model with impact 3, in that
\* order); they are appended after every check has run and before scoring, so
\* they are the last three violations of the report and every violation of a
\* check precedes them.
C5_BaselineLast ==
    ClaimMinimal =>
        LET n == Len(report.issues)
        IN  /\ n >= 3
            /\ SubSeq(report.issues, n - 2, n) = ClaimBaseline
            /\ \A k \in 1..(n - 3) : ~ClaimIsBaseline(report.issues[k])
            /\ issues = report.issues

\* a minimal model on which checks report violations too
C5_Witness ==
    /\ ClaimMinimal
    /\ Len(report.issues) > 3
    /\ ~ClaimIsBaseline(report.issues[1])

\* C6: a model with no relationships, or no measures, or at most one table
\* never scores 100, whatever else it contains.
C6_NeverPerfect ==
    /\ Analysed
    /\ \/ Len(input.relationships) = 0
       \/ ClaimMeasures = 0
       \/ Len(input.tables) <= 1
    => report.score < 100

\* several tables, a relationship, no measure: only the mildest baseline
\* violation applies, and the score is 99
C6_Witness ==
    /\ Analysed
    /\ Len(input.relationships) > 0
    /\ Len(input.tables) > 1
    /\ ClaimMeasures = 0
    /\ report.total_issues = 1
    /\ report.score = 99

(***************************************************************************)
(* Claims about the duplicate-measure rule                                 *)
(***************************************************************************)
\* the rule engine has analysed the definition
ClaimBPAAnalysed == input.kind = "definition" /\ report.kind = "violations"

\* the measures of the analysed model in traversal order, each with its
\* table and with its expression without white space
ClaimModelMeasures ==
    LET Measures(tables) ==
            Flatten([t \in 1..Len(tables) |->
                [m \in 1..Len(tables[t].measures) |->
                    [name  |-> tables[t].measures[m].name,
                     table |-> tables[t].name,
                     text  |-> SelectSeq(tables[t].measures[m].expression,
                                         LAMBDA c : c \notin {" ", "\t", "\n", "\r"}),
                     type  |-> tables[t].measures[m].expression_type]]])
    IN  Measures(ModelData(input).tables)

\* the violations of the rule in the returned list
ClaimDuplicates ==
    SelectSeq(report.violations, LAMBDA v : v.rule_id = "AVOID_DUPLICATE_MEASURES")

ClaimBreakers == {i \in 1..Len(input.steps) : input.steps[i].breaks_folding}

\* the first of them
ClaimFirstBreaker == CHOOSE k \in ClaimBreakers : \A j \in ClaimBreakers : k <= j

\* the first step is a SQL, OData or SharePoint source, the first breaker is
\* at a position k > 1 and a row filter follows it
ClaimBrokenBeforeFilter ==
    /\ input.kind = "query"
    /\ report.kind = "checked"
    /\ Len(input.steps) > 0
    /\ \/ contains(<<"S", "q", "l", ".", "D", "a", "t", "a", "b", "a", "s", "e">>, input.steps[1].expression)
       \/ contains(<<"O", "D", "a", "t", "a", ".", "F", "e", "e", "d">>, input.steps[1].expression)
       \/ contains(<<"S", "h", "a", "r", "e", "P", "o", "i", "n", "t", ".">>, input.steps[1].expression)
    /\ ClaimBreakers # {}
    /\ ClaimFirstBreaker > 1
    /\ \E j \in (ClaimFirstBreaker + 1)..Len(input.steps) :
           contains(<<"S", "e", "l", "e", "c", "t", "R", "o", "w", "s">>, input.steps[j].expression)

\* C8: a query with a foldable source, its first breaker at a position k > 1
\* and a row filter after k gets exactly one Query Folding violation, of
\* severity High and located at k, and no Medium one
C8_OneHighAtBreaker ==
    ClaimBrokenBeforeFilter =>
        /\ Len(issues) = 1
        /\ issues[1].category = "Query Folding"
        /\ issues[1].severity = "High"
        /\ issues[1].line_number = ClaimFirstBreaker

\* the breaker is the third step and the filter the fifth
C8_Witness_BreakerAt3FilterAt5 ==
    /\ ClaimBrokenBeforeFilter
    /\ Len(input.steps) = 5
    /\ ClaimBreakers = {3}
    /\ contains(<<"S", "e", "l", "e", "c", "t", "R", "o", "w", "s">>, input.steps[5].expression)
    /\ ~contains(<<"S", "e", "l", "e", "c", "t", "R", "o", "w", "s">>, input.steps[4].expression)
    /\ Len(issues) = 1
    /\ issues[1].line_number = 3

C10_UnresolvedEndpointsSkipped ==
    LET Endpoint(relationships, table, column) ==
            \E r \in 1..Len(relationships) :
                \/ /\ relationships[r].from_table = table
                   /\ relationships[r].from_column = column
                \/ /\ relationships[r].to_table = table
                   /\ relationships[r].to_column = column
        Resolved(model_data, v) ==
            IF v.rule_id = "MARK_PRIMARY_KEYS"
            THEN /\ \E t \in 1..Len(model_data.tables) :
                        model_data.tables[t].name = v.object_name
                 /\ \E r \in 1..Len(model_data.relationships) :
                        model_data.relationships[r].to_table = v.object_name
            ELSE /\ \E t \in 1..Len(model_data.tables) :
                        /\ model_data.tables[t].name = v.table_name
                        /\ \E c \in 1..Len(model_data.tables[t].columns) :
                               model_data.tables[t].columns[c].name = v.object_name
                 /\ Endpoint(model_data.relationships, v.table_name, v.object_name)
        Holds(model_data) ==
            /\ \A k \in {8, 15, 19} : ~check_func(k, model_data, <<>>).raised
            /\ \A i \in 1..Len(report.violations) :
                   report.violations[i].rule_id
                       \in {rule_implementations[8], rule_implementations[15],
                            rule_implementations[19]}
                   => Resolved(model_data, report.violations[i])
    IN  /\ rule_implementations[8] = "HIDE_FOREIGN_KEYS"
        /\ rule_implementations[15] = "RELATIONSHIP_COLUMNS_SHOULD_BE_OF_INTEGER_DATA_TYPE"
        /\ rule_implementations[19] = "MARK_PRIMARY_KEYS"
        /\ ClaimBPAAnalysed => Holds(ModelData(input))

\* the model is the table Store with the relationships from Store to
\* Customer and from Ghost to Store: Customer and Ghost are not in the
\* model; the three rules report Store and its column Key and nothing else
C10_Witness_DanglingEndpoints ==
    /\ ClaimBPAAnalysed
    /\ Len(input.tables) = 1
    /\ input.tables[1].name = <<"S", "t", "o", "r", "e">>
    /\ Len(input.relationships) = 2
    /\ input.relationships[1].to_table = <<"C", "u", "s", "t", "o", "m", "e", "r">>
    /\ input.relationships[2].from_table = <<"G", "h", "o", "s", "t">>
    /\ SelectSeq(report.violations,
                LAMBDA v : v.rule_id = "HIDE_FOREIGN_KEYS")
           = << BPAViolation("HIDE_FOREIGN_KEYS", "Maintenance", 2, "Column",
                             <<"K", "e", "y">>, <<"S", "t", "o", "r", "e">>) >>
    /\ SelectSeq(report.violations,
                LAMBDA v : v.rule_id = "RELATIONSHIP_COLUMNS_SHOULD_BE_OF_INTEGER_DATA_TYPE")
           = << BPAViolation("RELATIONSHIP_COLUMNS_SHOULD_BE_OF_INTEGER_DATA_TYPE",
                             "Performance", 2, "Column", <<"K", "e", "y">>, <<"S", "t", "o", "r", "e">>) >>
    /\ SelectSeq(report.violations,
                LAMBDA v : v.rule_id = "MARK_PRIMARY_KEYS")
           = << BPAViolation("MARK_PRIMARY_KEYS", "Maintenance", 1, "Table",
                             <<"S", "t", "o", "r", "e">>, None) >>

(***************************************************************************)
(* Claims about failures after normalisation                               *)
(***************************************************************************)
\* the analysis ended in the except clause of analyze_tmdl_export: a check
\* raised on the normalised definition
ClaimCheckRaised ==
    /\ input.kind = "definition"
    /\ report.kind = "error"
    /\ report.error = "Failed to analyze file"

\* C11 as stated: once a definition is normalised every check completes, and
\* the analysis never returns an error result because a check raised
C11_Original_NoFatalPath == ~ClaimCheckRaised

\* an analysis of a JSON definition with a measure ends in the except clause
\* (KeyError 'complexity' in _check_measure_complexity)
C11_Witness_JsonMeasure ==
    /\ ClaimCheckRaised
    /\ input.format = "json"
    /\ Len(input.tables) = 1
    /\ Len(input.tables[1].measures) > 0

(***************************************************************************)
(* Claims about the shape of the normalised definition                     *)
(***************************************************************************)
\* the attribute sets carried by the entries of a list of entities
ClaimAttributes(entities) == {DOMAIN entities[k] : k \in 1..Len(entities)}

\* the attribute sets of the tables, columns, measures and relationships of
\* a normalised definition
ClaimShape(sections) ==
    [tables        |-> ClaimAttributes(sections.tables),
     columns       |-> UNION {ClaimAttributes(sections.tables[k].columns) :
                                 k \in 1..Len(sections.tables)},
     measures      |-> UNION {ClaimAttributes(sections.tables[k].measures) :
                                 k \in 1..Len(sections.tables)},
     relationships |-> ClaimAttributes(sections.relationships)]

\* every attribute of an entity of the textual normal form is an attribute of
\* every entity of that kind of the JSON normal form
ClaimCarries(part) ==
    \A text \in ClaimShape(parse_tmdl_sections(input))[part],
       json \in ClaimShape(parse_tmsl_json_sections(input))[part] : text \subseteq json

\* C12 as stated: every attribute that a text-derived table, column, measure
\* or relationship carries is carried by the JSON-derived one
C12_Original_SameShape ==
    input.kind = "definition"
        => \A part \in {"tables", "columns", "measures", "relationships"} : ClaimCarries(part)

\* a definition with a measure and a relationship has been analysed: its
\* tables, columns and relationships carry the textual attributes in both
\* normal forms, and its JSON-derived measures carry no complexity
C12_Witness_MeasureWithoutComplexity ==
    /\ input.kind = "definition"
    /\ report.kind # "none"
    /\ Len(input.relationships) > 0
    /\ ClaimShape(parse_tmsl_json_sections(input)).measures
           = { {"name", "expression", "format_string"} }
    /\ ClaimShape(parse_tmdl_sections(input)).measures
           = { {"name", "expression", "format_string", "complexity",
                "uses_calculate", "uses_iterator", "line_count"} }
    /\ \A part \in {"tables", "columns", "relationships"} : ClaimCarries(part)

(***************************************************************************)
(* Claims about the unified analyzer                                       *)
(***************************************************************************)
\* analyze_model returned a unified report
ClaimUnified == engine.name = "unified" /\ report.kind = "report"

\* C13 as stated: whatever the weights of the caller, the unified score is
\* the rounded weighted sum clamped to [0,100], an integer from 0 to 100
C13_Original_ScoreInRange ==
    ClaimUnified => report.score \in 0..100

\* the weights Model Design 3 and Security -2 (3.0 and -2.0 once normalised)
\* on a model whose Security percentage is 0: the score is 300
C13_Witness_ScoreAbove100 ==
    /\ ClaimUnified
    /\ \E k \in 1..Len(engine.weights) : engine.weights[k].weight < 0
    /\ report.category_scores["Security"] = 0
    /\ report.score = 300

\* the grade bands of the combiner as the claim states them
ClaimUnifiedBand(s) ==
    IF s >= 90 THEN "A"
    ELSE IF 75 <= s /\ s <= 89 THEN "B"
    ELSE IF 60 <= s /\ s <= 74 THEN "C"
    ELSE IF 50 <= s /\ s <= 59 THEN "D"
    ELSE "F"

\* C14: the grade of a unified report is the band of its score (A from 90,
\* B 75..89, C 60..74, D 50..59, F below); a score in 75..79 is a B that an
\* engine grades C, a score in 50..59 is a D that an engine grades F
C14_UnifiedGradeBands ==
    ClaimUnified =>
        /\ report.grade = ClaimUnifiedBand(report.score)
        /\ report.score \in 75..79 => report.grade = "B" /\ Grade(report.score) = "C"
        /\ report.score \in 50..59 => report.grade = "D" /\ Grade(report.score) = "F"

\* a unified score of 79, graded B
C14_Witness_Score79 ==
    /\ ClaimUnified
    /\ report.score = 79
    /\ report.grade = "B"

(***************************************************************************)
(* Claims about the BPA rules engine                                       *)
(***************************************************************************)
\* the violations of the k-th registered rule in a list of violations
ClaimOfRule(vs, k) ==
    SelectSeq(vs, LAMBDA v : v.rule_id = rule_implementations[k])

\* the place of a rule in the registration order
ClaimRulePosition(rule_id) ==
    CHOOSE k \in 1..Len(rule_implementations) : rule_implementations[k] = rule_id

\* C15: the list analyze_model returns holds, in registration order of the
\* rules, exactly the result of each rule that did not raise, and nothing
\* of a rule that raised; the rules before and after a raising rule are in it
C15_EveryRuleOnceInOrder ==
    report.kind = "violations" =>
        /\ \A i, j \in 1..Len(report.violations) :
               i < j => ClaimRulePosition(report.violations[i].rule_id)
                            <= ClaimRulePosition(report.violations[j].rule_id)
        /\ \E order \in Orders(snowflake_tables(ModelData(input))) :
               \A k \in 1..Len(rule_implementations) :
                   ClaimOfRule(report.violations, k)
                       = IF check_func(k, ModelData(input), order).raised THEN <<>>
                         ELSE check_func(k, ModelData(input), order).violations

\* the rule AVOID_DUPLICATE_MEASURES raised on a JSON model whose measure
\* expressions are lists; the result holds violations of a rule registered
\* before it and of rules registered after it
C15_Witness_RaisingRule ==
    /\ report.kind = "violations"
    /\ check_func(9, ModelData(input), <<>>).raised
    /\ ClaimOfRule(report.violations, 9) = <<>>
    /\ ClaimOfRule(report.violations, 1) # <<>>
    /\ ClaimOfRule(report.violations, 16) # <<>>
    /\ ClaimOfRule(report.violations, 21) # <<>>

(***************************************************************************)
(* Claims about the results of the entry points                            *)
(***************************************************************************)
\* the keys of a result
ClaimKeys(result) == DOMAIN result \ {"kind"}

\* an error object: an 'error' key and no report fields
ClaimErrorObject(result) ==
    /\ "error" \in ClaimKeys(result)
    /\ ClaimKeys(result) \cap {"score", "grade", "issues"} = {}

\* a complete Report: score, grade and issues, and no 'error' key
ClaimCompleteReport(result) ==
    /\ {"score", "grade", "issues"} \subseteq ClaimKeys(result)
    /\ "error" \notin ClaimKeys(result)

\* C16 as stated: every result of an entry point is an error object or a
\* complete Report, never a mix of the two
C16_Original_TwoShapes ==
    report # NoReport => ClaimErrorObject(report) \/ ClaimCompleteReport(report)

\* analyze_tmdl_file on a TMDL text with tables and without M queries
\* returns an 'error' key together with a score of 100 and an issue list
C16_Witness_ErrorWithScore ==
    /\ engine.name = "mcode"
    /\ input.format = "tmdl"
    /\ Len(input.tables) > 0
    /\ "error" \in ClaimKeys(report)
    /\ {"score", "issues"} \subseteq ClaimKeys(report)
    /\ report.score = 100

(***************************************************************************)
(* Claims about the buckets of the unified analyzer                        *)
(***************************************************************************)
\* C17 as stated: each unified bucket carries the percentage of its category
\* in the sub-report (Design, Naming and Measures of the structural report,
\* Performance, Query Folding and Security of the M-code report)
C17_Original_BucketsCarryCategories ==
    ClaimUnified =>
        /\ report.category_scores["Model Design"]
               = report.model_report.category_scores["Model Design"].percentage
        /\ report.category_scores["Naming"]
               = report.model_report.category_scores["Naming Convention"].percentage
        /\ report.category_scores["DAX Measures"]
               = report.model_report.category_scores["Measures"].percentage
        /\ report.category_scores["M-Code Performance"]
               = report.mcode_report.category_scores["Performance"].percentage
        /\ report.category_scores["Query Folding"]
               = report.mcode_report.category_scores["Query Folding"].percentage
        /\ report.category_scores["Security"]
               = report.mcode_report.category_scores["Security"].percentage

\* the structural report has a Model Design category below 100 percent and
\* the bucket Model Design is 100
C17_Witness_DesignLost ==
    /\ ClaimUnified
    /\ report.model_report.category_scores["Model Design"].percentage < 100
    /\ report.category_scores["Model Design"] = 100

(***************************************************************************)
(* Claims about the queries of the unified analyzer                        *)
(***************************************************************************)
\* the partitions with source type 'm' and an expression of the tables that
\* the structural engine analyses
ClaimMPartitions(d) ==
    Flatten([t \in 1..Len(parse_tmsl_json_sections(d).tables) |->
        SelectSeq(parse_tmsl_json_sections(d).tables[t].partitions,
                  LAMBDA p : p.source.type = "m" /\ MCodeLibrary[p.source.expression] # <<>>)])

\* C18 as stated: the M-code engine analyses each M partition of each table
\* that the structural engine analyses exactly once, with the tables at the
\* top of the JSON and with the tables under the key 'model'
C18_Original_SameModel ==
    ClaimUnified => report.statistics.mcode_queries = Len(ClaimMPartitions(input))

\* the tables are under the key 'model': the structural engine analyses a
\* table with M partitions, the M-code engine analyses no query
C18_Witness_NestedNotAnalysed ==
    /\ ClaimUnified
    /\ input.nested
    /\ Len(ClaimMPartitions(input)) > 0
    /\ Len(report.model_report.issues) > 0
    /\ report.statistics.mcode_queries = 0

(***************************************************************************)
(* Claims about the relationship vocabulary of the JSON normaliser         *)
(***************************************************************************)
\* the textual vocabulary's word for a cardinality of the JSON vocabulary
ClaimCardinality(cardinality) ==
    CASE cardinality = "oneToOne"   -> "one-to-one"
      [] cardinality = "oneToMany"  -> "one-to-many"
      [] cardinality = "manyToOne"  -> "many-to-one"
      [] cardinality = "manyToMany" -> "many-to-many"

ClaimJsonRelationships == parse_tmsl_json_sections(input).relationships

\* C19 as stated: the JSON normaliser maps each cardinality onto the textual
\* word of the same meaning and the cross-filter direction onto both or
\* single, so a many-to-many relationship with a filter in both directions
\* gets the many-to-many violation
C19_Original_CardinalityKept ==
    (input.kind = "definition" /\ input.format = "json")
        => /\ \A k \in 1..Len(input.relationships) :
                  /\ ClaimJsonRelationships[k].cardinality
                         = ClaimCardinality(input.relationships[k].cardinality)
                  /\ ClaimJsonRelationships[k].cross_filter_direction
                         = (IF input.relationships[k].both THEN "both" ELSE "single")
           /\ report.kind = "report"
                  => \A k \in 1..Len(input.relationships) :
                         (input.relationships[k].cardinality = "manyToMany"
                              /\ input.relationships[k].both)
                             => \E j \in 1..Len(report.issues) :
                                    report.issues[j].title
                                        = "Many-to-Many with Bidirectional Filter"

\* a JSON definition with a many-to-many relationship filtered in both
\* directions has been analysed: the relationship is many-to-one in the normal
\* form and the report has no many-to-many violation
C19_Witness_ManyToManyLost ==
    /\ input.kind = "definition"
    /\ input.format = "json"
    /\ report.kind = "report"
    /\ \E k \in 1..Len(input.relationships) :
           /\ input.relationships[k].cardinality = "manyToMany"
           /\ input.relationships[k].both
           /\ ClaimJsonRelationships[k].cardinality = "many-to-one"
           /\ ClaimJsonRelationships[k].cross_filter_direction = "both"
    /\ \A j \in 1..Len(report.issues) :
           report.issues[j].title # "Many-to-Many with Bidirectional Filter"

(***************************************************************************)
(* Claims about the category scores of a report, checked under SpecScore   *)
(***************************************************************************)
\* category_max = 100 x category_weight, in tenths
ClaimCategoryMax(e, c) == scoring_weights(e)[c] * 10

\* max(0, category_max - raw_category_penalty), in tenths
ClaimDisplayExact(e, iss, c) == Max(0, ClaimCategoryMax(e, c) - ClaimRaw(iss, c))

\* the whole part of n / d, or one less when n / d is a whole number above 0
\* (a float just below a whole number truncates to one less)
ClaimTruncations(n, d) ==
    IF n % d = 0 /\ n > 0 THEN {n \div d, (n \div d) - 1} ELSE {n \div d}

\* C20 as stated: the displayed score of every category is exactly
\* max(0, category_max - raw_category_penalty) and its percentage is in 0..100
C20_Original_DisplayedExact ==
    Reported
        => \A c \in CategorySet(engine) :
               /\ report.category_scores[c].score * 10
                      = ClaimDisplayExact(engine, issues, c)
               /\ report.category_scores[c].percentage \in 0..100

\* C20 amended: the displayed score of every category is
\* max(0, category_max - raw_category_penalty) truncated to a whole number,
\* its percentage is the truncated share of category_max and lies in 0..100;
\* the raw penalty is neither weighted nor capped, so the category displays 0
\* as soon as the raw penalty reaches category_max, while the category never
\* removes more than 30 points from the overall score
C20_DisplayedTruncated ==
    Reported
        => \A c \in CategorySet(engine) :
               /\ report.category_scores[c].max_score = scoring_weights(engine)[c]
               /\ report.category_scores[c].score
                      \in ClaimTruncations(ClaimDisplayExact(engine, issues, c), 10)
               /\ report.category_scores[c].percentage
                      \in ClaimTruncations(ClaimDisplayExact(engine, issues, c) * 100,
                                           ClaimCategoryMax(engine, c))
               /\ report.category_scores[c].percentage \in 0..100
               /\ report.category_scores[c].score \in 0..scoring_weights(engine)[c]
               /\ ClaimRaw(issues, c) >= ClaimCategoryMax(engine, c)
                      => /\ report.category_scores[c].score = 0
                         /\ report.category_scores[c].percentage = 0
               /\ ClaimCapped(engine, issues, c) <= 30000

\* a report in which a category displays 0 although it removed fewer points
\* from the overall score than its category_max
C20_Witness ==
    /\ Reported
    /\ \E c \in CategorySet(engine) :
           /\ report.category_scores[c].score = 0
           /\ report.category_scores[c].percentage = 0
           /\ ClaimRaw(issues, c) > 0
           /\ ClaimCapped(engine, issues, c) < ClaimCategoryMax(engine, c) * 100

(***************************************************************************)
(* Claims about the aggregates of the model                                *)
(***************************************************************************)
\* the objects of one kind that the tables of the analysed file hold
ClaimObjects(Of(_)) ==
    LET RECURSIVE From(_)
        From(k) == IF k > Len(input.tables) THEN 0
                   ELSE Of(input.tables[k]) + From(k + 1)
    IN  From(1)

\* C21: in every report of the structural engine the statistics 'measures',
\* 'calculated_columns' and 'hierarchies' are the sums of the per-table
\* counts of the analysed file, for both formats, and the aggregates of the
\* normalized sections are the concatenations over its tables in table order
C21_AggregatesRecomputed ==
    LET Calculated(table) ==
            Len(SelectSeq(table.columns, LAMBDA c : c.calculated))
        Holds(sections) ==
            /\ sections.measures = Aggregate(sections.tables, "measures")
            /\ sections.calculated_columns = Aggregate(sections.tables, "calculated_columns")
            /\ sections.hierarchies = Aggregate(sections.tables, "hierarchies")
            /\ report.statistics.measures = ClaimObjects(LAMBDA table : Len(table.measures))
            /\ report.statistics.calculated_columns = ClaimObjects(Calculated)
            /\ report.statistics.hierarchies =
                   ClaimObjects(LAMBDA table : Len(table.hierarchies))
    IN  Analysed => Holds(normalize(input))

\* a report on a textual export with measures in two tables, a calculated
\* column and a hierarchy: the parser had aggregated them already
C21_Witness_TextualTwoTables ==
    /\ Analysed
    /\ input.format = "tmdl"
    /\ Cardinality({k \in 1..Len(input.tables) : input.tables[k].measures # <<>>}) >= 2
    /\ report.statistics.measures >= 2
    /\ report.statistics.calculated_columns >= 1
    /\ report.statistics.hierarchies >= 1

(***************************************************************************)
(* Claims about the share of bi-directional and many-to-many relationships *)
(***************************************************************************)
\* C22: the rule reports once when the bi-directional relationships plus the
\* many-to-many relationships are more than 30% of all relationships, a
\* relationship that is both counting twice, and not at all otherwise:
\* not at exactly 30% and not without relationships
C22_StrictlyAboveThirtyPercent ==
    LET Holds(total, bidi_count, m2m_count, reported) ==
            Len(reported) = IF total > 0 /\ 10 * (bidi_count + m2m_count) > 3 * total
                            THEN 1 ELSE 0
    IN  ClaimBPAAnalysed =>
            Holds(Len(input.relationships),
                  Len(SelectSeq(input.relationships, LAMBDA r : r.both)),
                  Len(SelectSeq(input.relationships,
                                LAMBDA r : r.cardinality = "manyToMany")),
                  SelectSeq(report.violations,
                            LAMBDA v : v.rule_id =
                                "AVOID_EXCESSIVE_BI-DIRECTIONAL_OR_MANY-TO-MANY_RELATIONSHIPS"))

\* ten relationships, one of them bi-directional and one both bi-directional
\* and many-to-many: 3 of 10, and no violation of the rule
C22_Witness_ThreeOfTen ==
    /\ ClaimBPAAnalysed
    /\ Len(input.relationships) = 10
    /\ Len(SelectSeq(input.relationships, LAMBDA r : r.both)) = 2
    /\ Len(SelectSeq(input.relationships, LAMBDA r : r.cardinality = "manyToMany")) = 1
    /\ \A k \in 1..Len(report.violations) :
           report.violations[k].rule_id
               # "AVOID_EXCESSIVE_BI-DIRECTIONAL_OR_MANY-TO-MANY_RELATIONSHIPS"

(***************************************************************************)
(* Claims about bi-directional relationships                               *)
(***************************************************************************)
\* C23: a report of the structural engine holds one issue 'Many-to-Many with
\* Bidirectional Filter' (Performance, Critical, impact 10) for each
\* relationship of the normalized model that is many-to-many and
\* bi-directional and for no other relationship, and an issue 'Unnecessary
\* Bidirectional Filter' for bi-directional relationships only
C23_CriticalForManyToManyBoth ==
    LET Titled(title) == SelectSeq(report.issues, LAMBDA issue : issue.title = title)
        Holds(relationships, critical, high) ==
            /\ Len(critical)
                   = Len(SelectSeq(relationships,
                                   LAMBDA rel : /\ rel.cross_filter_direction = "both"
                                                /\ rel.cardinality = "many-to-many"))
            /\ \A k \in 1..Len(critical) :
                   critical[k] = Issue("Performance", "Critical", 10,
                                       "Many-to-Many with Bidirectional Filter")
            /\ Len(high)
                   <= Len(SelectSeq(relationships,
                                    LAMBDA rel : /\ rel.cross_filter_direction = "both"
                                                 /\ rel.cardinality # "many-to-many"))
    IN  Analysed => Holds(normalize(input).relationships,
                          Titled("Many-to-Many with Bidirectional Filter"),
                          Titled("Unnecessary Bidirectional Filter"))

\* a textual export with a many-to-many bi-directional relationship and a
\* many-to-one bi-directional one from a fact to a dimension: one Critical
\* issue and one High issue
C23_Witness_OneCriticalOneHigh ==
    /\ Analysed
    /\ input.format = "tmdl"
    /\ input.relationships = <<RelationshipLibrary[2], RelationshipLibrary[3]>>
    /\ Len(SelectSeq(report.issues,
                     LAMBDA issue : issue.title = "Many-to-Many with Bidirectional Filter")) = 1
    /\ Len(SelectSeq(report.issues,
                     LAMBDA issue : issue.title = "Unnecessary Bidirectional Filter")) = 1

(***************************************************************************)
(* Claims about the snowflake rule                                         *)
(***************************************************************************)
\* C24: the violations of SNOWFLAKE_SCHEMA_ARCHITECTURE name, once each, the
\* tables that are the 'from' table of some relationship and the 'to' table
\* of some relationship and have no 'fact' in their name, and no other table
C24_SnowflakeBothSidesOnce ==
    LET Holds(relationships, reported) ==
            /\ {reported[k].object_name : k \in 1..Len(reported)}
                   = {name \in {relationships[r].from_table : r \in 1..Len(relationships)} :
                         /\ \E r \in 1..Len(relationships) : relationships[r].to_table = name
                         /\ ~contains(<<"f", "a", "c", "t">>, lower(name))}
            /\ \A j, k \in 1..Len(reported) :
                   reported[j].object_name = reported[k].object_name => j = k
    IN  ClaimBPAAnalysed =>
            Holds(input.relationships,
                  SelectSeq(report.violations,
                            LAMBDA v : v.rule_id = "SNOWFLAKE_SCHEMA_ARCHITECTURE"))

\* FactSales to Customer and Customer to FactSales: both tables are on both
\* sides; Customer is reported once and FactSales is not reported
C24_Witness_FactSkipped ==
    /\ ClaimBPAAnalysed
    /\ Len(input.relationships) = 2
    /\ input.relationships[1].from_table = <<"F", "a", "c", "t", "S", "a", "l", "e", "s">>
    /\ input.relationships[1].to_table = <<"C", "u", "s", "t", "o", "m", "e", "r">>
    /\ input.relationships[2].from_table = <<"C", "u", "s", "t", "o", "m", "e", "r">>
    /\ input.relationships[2].to_table = <<"F", "a", "c", "t", "S", "a", "l", "e", "s">>
    /\ Len(SelectSeq(report.violations,
                     LAMBDA v : v.rule_id = "SNOWFLAKE_SCHEMA_ARCHITECTURE")) = 1
    /\ \E k \in 1..Len(report.violations) :
           /\ report.violations[k].rule_id = "SNOWFLAKE_SCHEMA_ARCHITECTURE"
           /\ report.violations[k].object_name = <<"C", "u", "s", "t", "o", "m", "e", "r">>

(***************************************************************************)
(* Claims about table proliferation                                        *)
(***************************************************************************)
\* C25 as stated: a report holds one issue 'Table Proliferation Detected' for
\* each group of more than two tables of one base name in which the column
\* names shared by all tables of the group are more than 70% of the average
\* number of columns of the tables of the group, and no other such issue
C25_Original_WholeGroupRatio ==
    LET Holds(tables) ==
            LET Group(base) ==
                    {k \in 1..Len(tables) : base_name(tables[k].name) = base}
                Columns(k) ==
                    {tables[k].columns[c].name : c \in 1..Len(tables[k].columns)}
                Shared(group) ==
                    {name \in UNION {Columns(k) : k \in group} :
                        \A k \in group : name \in Columns(k)}
                Total(group) ==
                    Sum([k \in 1..Len(tables) |->
                            IF k \in group THEN Cardinality(Columns(k)) ELSE 0])
                Similar(group) ==
                    Cardinality(Shared(group)) * Cardinality(group) * 10
                        > 7 * Total(group)
            IN  Len(SelectSeq(report.issues,
                              LAMBDA issue : issue.title = "Table Proliferation Detected"))
                = Cardinality({base \in {base_name(tables[k].name) : k \in 1..Len(tables)} :
                                  /\ Cardinality(Group(base)) > 2
                                  /\ Similar(Group(base))})
    IN  Analysed => Holds(normalize(input).tables)

\* a textual export with three tables Budget2021 of two columns each and
\* the table Budget Q3 without columns: the four tables of the group share
\* no column, and the group is reported
C25_Witness_FourthTableDiffers ==
    /\ Analysed
    /\ input.format = "tmdl"
    /\ input.tables = <<TableLibrary[4], TableLibrary[4], TableLibrary[4], TableLibrary[5]>>
    /\ Len(SelectSeq(report.issues,
                     LAMBDA issue : issue.title = "Table Proliferation Detected")) = 1

\* the first step of the checked query is a SQL, OData or SharePoint source
ClaimFoldableSource ==
    /\ input.kind = "query"
    /\ Len(input.steps) > 0
    /\ \/ contains(<<"S", "q", "l", ".", "D", "a", "t", "a", "b", "a", "s", "e">>, input.steps[1].expression)
       \/ contains(<<"O", "D", "a", "t", "a", ".", "F", "e", "e", "d">>, input.steps[1].expression)
       \/ contains(<<"S", "h", "a", "r", "e", "P", "o", "i", "n", "t", ".">>, input.steps[1].expression)

\* the Query Folding issues of the checked query
ClaimFoldingIssues ==
    {k \in 1..Len(issues) : issues[k].category = "Query Folding"}

\* C26: the folding check reports at most one Query Folding issue per query,
\* wherever the first folding-breaking step stands, the first step included,
\* and however many later steps also break folding
C26_Original_AtMostOnePerQuery ==
    report.kind = "checked" => Cardinality(ClaimFoldingIssues) <= 1

\* the first step is a foldable source that itself breaks folding, a later
\* step breaks folding too, and both are reported
C26_Witness_FirstStepBreaks ==
    /\ report.kind = "checked"
    /\ ClaimFoldableSource
    /\ input.steps[1].breaks_folding
    /\ \E j \in 2..Len(input.steps) : input.steps[j].breaks_folding
    /\ Cardinality(ClaimFoldingIssues) = 2
    /\ issues[1].line_number = 1
    /\ issues[2].line_number > 1

\* C26, first breaker after the first step: the folding check reports at most
\* one Query Folding issue, however many later steps also break folding
C26_OneWhenFirstStepFolds ==
    (/\ report.kind = "checked"
     /\ input.kind = "query"
     /\ Len(input.steps) > 0
     /\ ~input.steps[1].breaks_folding) => Cardinality(ClaimFoldingIssues) <= 1

C27_Witness_NoSteps ==
    /\ report.kind = "checked"
    /\ input.kind = "query"
    /\ input.steps = <<>>
    /\ issues = <<>>

C29_CountsAgree ==
    LET Holds(e, r) ==
            /\ r.total_issues = Len(r.issues)
            /\ r.total_issues = r.issues_by_severity["Critical"]
                                + r.issues_by_severity["High"]
                                + r.issues_by_severity["Medium"]
                                + r.issues_by_severity["Low"]
                                + r.issues_by_severity["Info"]
            /\ r.total_issues = Sum([k \in 1..Len(Categories(e)) |->
                                        r.category_scores[Categories(e)[k]].issues_count])
            /\ DOMAIN r.issues_by_severity = IssueSeverity
            /\ DOMAIN r.category_scores = CategorySet(e)
            /\ \A k \in 1..Len(r.issues) : /\ r.issues[k].severity \in IssueSeverity
                                           /\ r.issues[k].category \in CategorySet(e)
            /\ \A severity \in IssueSeverity :
                   r.issues_by_severity[severity]
                       = Cardinality({k \in 1..Len(r.issues) :
                                         r.issues[k].severity = severity})
            /\ \A c \in CategorySet(e) :
                   r.category_scores[c].issues_count
                       = Cardinality({k \in 1..Len(r.issues) : r.issues[k].category = c})
    IN  /\ (engine.name = "mcode" /\ report.kind = "report") => Holds("mcode", report)
        /\ ClaimUnified => /\ Holds("structural", report.model_report)
                           /\ Holds("mcode", report.mcode_report)

\* a unified report whose structural report holds Info issues next to High
\* ones and whose M-code report holds issues of two categories
C29_Witness_MixedSeverities ==
    /\ ClaimUnified
    /\ report.model_report.issues_by_severity["Info"] >= 1
    /\ report.model_report.issues_by_severity["High"] >= 1
    /\ report.model_report.total_issues >= 3
    /\ Cardinality({c \in CategorySet("mcode") :
                       report.mcode_report.category_scores[c].issues_count > 0}) >= 2

(***************************************************************************)
(* Claims about the score of a changed list                                *)
(***************************************************************************)
\* C30 as stated: appending an issue never raises the score, appending an
\* issue of severity Info or of impact 0 leaves it as it is, and the score of
\* a list does not depend on the order of its issues
C30_Original_MonotoneAndOrderFree ==
    LET Appended == /\ Len(issues) = Len(input.issues) + 1
                    /\ SubSeq(issues, 1, Len(input.issues)) = input.issues
        Reordered == /\ Len(issues) = Len(input.issues)
                     /\ \A c \in CategorySet(engine), s \in IssueSeverity, i \in 0..MaxImpact :
                            Len(SelectSeq(issues, LAMBDA x : x = Issue(c, s, i, "free")))
                            = Len(SelectSeq(input.issues,
                                            LAMBDA x : x = Issue(c, s, i, "free")))
    IN  input.kind = "scored" =>
            /\ Appended => report.score <= input.score
            /\ (Appended /\ (issues[Len(issues)].severity = "Info"
                             \/ issues[Len(issues)].impact_score = 0))
                   => report.score = input.score
            /\ Reordered => report.score = input.score

\* the six issues whose penalties add up to 3 points are scored 97; with the
\* first and the last of them exchanged they are scored 96
C30_Witness_OrderChangesScore ==
    /\ input.kind = "scored"
    /\ Len(input.issues) = 6
    /\ issues = [input.issues EXCEPT ![1] = input.issues[6], ![6] = input.issues[1]]
    /\ input.score = 97
    /\ report.score = 96

=============================================================================
